---- MODULE Spec2Model ----
(***************************************************************************)
(* Verification model of StackForge: the configuration store, the scaffold *)
(* generator with its template cache, and the GitHub publishing pipeline.  *)
(***************************************************************************)
EXTENDS Integers, Sequences, FiniteSets, TLC

VARIABLES
    \* ---- configuration store (src/lib/store/config-store.ts) ----
    config,         \* useConfigStore state.config
    lastKeys,       \* which of the framework keys the last updateConfig call carried
    lastChanged,    \* hasChanges of the last updateConfig call
    \* ---- autoAdjustProjectStructure as a pure function ----
    dIn,            \* <<frontendFramework, backendFramework, currentStructure>>
    dOut,           \* sequence of results of successive derivations
    \* ---- scaffold generator ----
    genConfig,      \* this.config of the ScaffoldGenerator serving the request
    genGitHub,      \* isGitHubRepo of the request
    genPc,          \* "idle" | "requested" | "done"
    genFiles,       \* files of the last GenerationResult
    templateCache,  \* TemplateCache singleton: set of <<key, content>>
    genCount,       \* number of generate calls made in this process
    \* ---- remote repository (GitHub) and publishing pipeline ----
    ref,            \* heads/main: commit sha, or NoSha when the branch does not exist
    commits,        \* sequence of commit objects; sha = index
    pc,             \* position in createInitialCommit
    files,          \* files argument
    commitMessage,  \* commitMessage argument
    mainRef,        \* local mainRef.object.sha
    currentCommit,  \* local currentCommit.tree.sha (the tree itself)
    treeItems,      \* local treeItems
    newTree,        \* local newTree.sha (the tree itself)
    newCommit,      \* local newCommit.sha
    ret,            \* returned sha / thrown message
    callLog,        \* network calls issued by the current invocation
    attempt,        \* number of invocations so far
    hist,           \* observations used only to state properties
    \* ---- validation rules (src/lib/validation/rules.ts) ----
    vIn,            \* configuration handed to the rules
    vOut,           \* <<>> before validation, then <<result>>
    \* ---- GenerateButton ----
    btnConfig,      \* config prop
    btnIsValidating,\* isValidating prop
    isGenerating,
    downloadId,     \* NoId for null
    error,          \* "null" or the error type
    isAuthenticated,
    showRepoModal,
    isCreatingRepo,
    repositoryUrl,  \* TRUE when a repository URL is set
    rateLimitInfo,  \* TRUE when rate limit information is set
    repoModalError, \* "null" or the kind of message
    lastRepoData,   \* TRUE when repository data is remembered
    generateRequest,\* a POST /api/generate awaits its response
    repoRequest,    \* a POST /api/github/repos/create awaits its response
    postLog,        \* configurations sent with POST /api/generate
    rejected,       \* configurations handed to onValidationError
    \* ---- GitHubPushProgress ----
    progress,       \* "null" or "loaded"
    currentStep,
    pushRepositoryUrl,
    pushDownloadId,
    polling,
    errorMessage,
    onFallbackDownload, \* TRUE when the prop is provided
    fallbackDownloads,  \* download ids handed to onFallbackDownload
    \* ---- ConfigurationWizard ----
    rendered,       \* the store values the last render of the wizard read
    aiEnabled,
    renderPending,  \* the store changed since the last render
    \* ---- ProgressStore ----
    tracker,  \* <<>> when the id has no entry, else <<GenerationProgress>>
    psOp,  \* the last operation called on the store
    psThrew, \* the last operation threw "Progress tracker not found"
    \* ---- useValidation ----
    hookConfig,  \* the config the hook was last rendered with
    validationResult,
    isValidating,
    timerPending,  \* the debounce timeout is set
    lastCacheKey,  \* lastCacheKeyRef.current: <<>> for '', else <<key>>
    validationCache,  \* entries [key, result] in insertion order
    idleQueue, \* configurations waiting for their requestIdleCallback
    \* ---- CreateRepoModal ----
    nameInput,  \* the name state: the text in the repository name input
    nameError,
    isCheckingAvailability,
    availabilityResult,  \* "null", or the available flag of the response
    availabilityTimer,  \* <<>>, or <<n>>: the 500 ms timeout set for name n
    availabilityRequests,  \* names of the availability checks in flight
    resultFor,  \* history: the name whose check produced availabilityResult
    submittedNames,  \* history: the names handed to onSubmit
    isOpen          \* the isOpen prop of CreateRepoModal

storeVars == <<config, lastKeys, lastChanged>>
deriveVars == <<dIn, dOut>>
genVars == <<genConfig, genGitHub, genPc, genFiles, templateCache, genCount>>
gitVars == <<ref, commits, pc, files, commitMessage, mainRef, currentCommit,
             treeItems, newTree, newCommit, ret, callLog, attempt, hist>>
valVars == <<vIn, vOut>>
btnVars == <<btnConfig, btnIsValidating, isGenerating, downloadId, error,
             isAuthenticated, showRepoModal, isCreatingRepo, repositoryUrl,
             rateLimitInfo, repoModalError, lastRepoData, generateRequest,
             repoRequest, postLog, rejected>>
pushVars == <<progress, currentStep, pushRepositoryUrl, pushDownloadId, polling,
              errorMessage, onFallbackDownload, fallbackDownloads>>
wizVars == <<rendered, aiEnabled, renderPending>>
progVars == <<tracker, psOp, psThrew>>
hookVars == <<hookConfig, validationResult, isValidating, timerPending, lastCacheKey, validationCache, idleQueue>>
modalVars == <<nameInput, nameError, isCheckingAvailability, availabilityResult, availabilityTimer, availabilityRequests, resultFor, submittedNames, isOpen>>
uiVars == <<valVars, btnVars, pushVars, wizVars, progVars, hookVars, modalVars>>
vars == <<storeVars, deriveVars, genVars, gitVars, uiVars>>

Undefined == "undefined"

(***************************************************************************)
(* Configuration store                                                     *)
(***************************************************************************)
FrontendFrameworks == {"nextjs", "react", "vue", "angular", "svelte"}
BackendFrameworks == {"none", "nextjs-api", "express", "fastify", "nestjs"}
BuildTools == {"auto", "vite", "webpack"}
ProjectStructures == {"nextjs-only", "react-spa", "fullstack-monorepo", "express-api-only"}
StoreAiTemplates == {"none", "chatbot"}

\* deployment is an array: an object with an identity (after #) and items;
\* === and !== compare the identity
DeploymentArrays == {"['vercel']#0", "['vercel']#1"}
deploymentItems(array) == <<"vercel">>

defaultConfig ==
    [frontendFramework |-> "nextjs",
     backendFramework  |-> "nextjs-api",
     buildTool         |-> "auto",
     projectStructure  |-> "nextjs-only",
     aiTemplate        |-> "none",
     deployment        |-> "['vercel']#0"]

ConfigKeys == {"frontendFramework", "backendFramework", "buildTool",
               "projectStructure", "aiTemplate", "deployment"}

autoAdjustBackendFramework(frontendFramework, currentBackendFramework) ==
    IF frontendFramework # "nextjs" /\ currentBackendFramework = "nextjs-api"
    THEN "none"
    ELSE currentBackendFramework

\* faulty variant: the fullstack-monorepo branch is missing
autoAdjustProjectStructure_NoMonorepoRow(frontendFramework, backendFramework, currentStructure) ==
    IF frontendFramework = "nextjs" /\ backendFramework = "nextjs-api"
    THEN "nextjs-only"
    ELSE IF frontendFramework # "nextjs" /\ backendFramework = "none"
    THEN "react-spa"
    ELSE IF backendFramework # "none" /\ backendFramework # "nextjs-api"
            /\ currentStructure \in {"nextjs-only", "react-spa"}
    THEN "express-api-only"
    ELSE currentStructure

autoAdjustProjectStructure(frontendFramework, backendFramework, currentStructure) ==
    IF frontendFramework = "nextjs" /\ backendFramework = "nextjs-api"
    THEN "nextjs-only"
    ELSE IF frontendFramework # "nextjs" /\ backendFramework = "none"
    THEN "react-spa"
    ELSE IF frontendFramework = "nextjs" /\ backendFramework # "none"
            /\ backendFramework # "nextjs-api"
    THEN "fullstack-monorepo"
    ELSE IF backendFramework # "none" /\ backendFramework # "nextjs-api"
            /\ currentStructure \in {"nextjs-only", "react-spa"}
    THEN "express-api-only"
    ELSE currentStructure

autoAdjustBuildTool(frontendFramework, currentBuildTool) ==
    IF currentBuildTool = "auto" THEN "auto" ELSE currentBuildTool

\* faulty variant: every call is treated as a change
hasChanges_Always(cfg, updates) == TRUE

\* Object.keys(updates).some(key => state.config[key] !== updates[key])
hasChanges(cfg, updates) ==
    \E key \in ConfigKeys : updates[key] # Undefined /\ cfg[key] # updates[key]

\* { ...state.config, ...updates }
ApplyUpdates(cfg, updates) ==
    [key \in ConfigKeys |-> IF updates[key] # Undefined THEN updates[key] ELSE cfg[key]]

\* faulty variant: the structure is re-derived only when the frontend key is present
updateConfigResult_FrontendOnly(cfg, updates) ==
    IF ~hasChanges(cfg, updates) THEN cfg
    ELSE
        LET merged == ApplyUpdates(cfg, updates)
            c1 == IF updates.frontendFramework # Undefined
                  THEN [merged EXCEPT !.backendFramework =
                          autoAdjustBackendFramework(merged.frontendFramework,
                                                     merged.backendFramework)]
                  ELSE merged
            c2 == IF updates.frontendFramework # Undefined
                  THEN [c1 EXCEPT !.projectStructure =
                          autoAdjustProjectStructure(c1.frontendFramework,
                                                     c1.backendFramework,
                                                     c1.projectStructure)]
                  ELSE c1
            c3 == IF updates.frontendFramework # Undefined
                  THEN [c2 EXCEPT !.buildTool =
                          autoAdjustBuildTool(c2.frontendFramework, c2.buildTool)]
                  ELSE c2
        IN c3

\* the state returned by the set() callback of updateConfig
updateConfigResult(cfg, updates) ==
    IF ~hasChanges(cfg, updates) THEN cfg
    ELSE
        LET merged == ApplyUpdates(cfg, updates)
            c1 == IF updates.frontendFramework # Undefined
                  THEN [merged EXCEPT !.backendFramework =
                          autoAdjustBackendFramework(merged.frontendFramework,
                                                     merged.backendFramework)]
                  ELSE merged
            c2 == IF updates.frontendFramework # Undefined
                     \/ updates.backendFramework # Undefined
                  THEN [c1 EXCEPT !.projectStructure =
                          autoAdjustProjectStructure(c1.frontendFramework,
                                                     c1.backendFramework,
                                                     c1.projectStructure)]
                  ELSE c1
            c3 == IF updates.frontendFramework # Undefined
                  THEN [c2 EXCEPT !.buildTool =
                          autoAdjustBuildTool(c2.frontendFramework, c2.buildTool)]
                  ELSE c2
        IN c3

\* largest number of keys in one updateConfig call
MaxUpdateKeys == 2

\* the framework keys present in an updates object
FrameworkKeys(updates) ==
    {key \in {"frontendFramework", "backendFramework"} : updates[key] # Undefined}

UpdateInputs ==
    {u \in [frontendFramework : FrontendFrameworks \cup {Undefined},
            backendFramework  : BackendFrameworks \cup {Undefined},
            buildTool         : BuildTools \cup {Undefined},
            projectStructure  : ProjectStructures \cup {Undefined},
            aiTemplate        : StoreAiTemplates \cup {Undefined},
            deployment        : {Undefined}] :
        Cardinality({key \in ConfigKeys : u[key] # Undefined}) \in 1..MaxUpdateKeys}

StoreInit ==
    /\ config = defaultConfig
    /\ lastKeys = {}
    /\ lastChanged = FALSE

updateConfig ==
    \E updates \in UpdateInputs :
        /\ config' = updateConfigResult(config, updates)
        /\ lastKeys' = FrameworkKeys(updates)
        /\ lastChanged' = hasChanges(config, updates)

resetConfig ==
    /\ config' = defaultConfig
    /\ lastKeys' = {}
    /\ lastChanged' = FALSE

(***************************************************************************)
(* autoAdjustProjectStructure applied to arbitrary inputs                  *)
(***************************************************************************)
\* number of successive re-derivations applied to one input
MaxDerive == 2

DeriveInit ==
    /\ dIn \in FrontendFrameworks \X BackendFrameworks \X ProjectStructures
    /\ dOut = <<>>

\* derive from the previous result (or from the input structure the first time)
Derive ==
    /\ Len(dOut) < MaxDerive
    /\ dOut' = Append(dOut,
                 autoAdjustProjectStructure(dIn[1], dIn[2],
                     IF dOut = <<>> THEN dIn[3] ELSE dOut[Len(dOut)]))
    /\ UNCHANGED dIn

(***************************************************************************)
(* Scaffold generator                                                      *)
(***************************************************************************)
AuthOptions == {"none", "nextauth", "supabase", "clerk"}
DatabaseOptions == {"none", "prisma-postgres", "drizzle-postgres", "supabase", "mongodb"}
ApiOptions == {"rest-fetch", "rest-axios", "trpc", "graphql"}
StylingOptions == {"tailwind", "css-modules", "styled-components"}
AiTemplates == {"none", "chatbot", "document-analyzer", "semantic-search",
                "code-assistant", "image-generator"}
AiProviders == {"anthropic", "openai", "aws-bedrock", "gemini"}
LegacyFrameworks == {"next", "express", "monorepo"}

F(p, c) == [path |-> p, content |-> c]
When(cond, fs) == IF cond THEN fs ELSE <<>>

isMonorepo(cfg) == cfg.projectStructure = "fullstack-monorepo"
\* faulty variant: the monorepo prefix is not applied
basePath_AlwaysSrc(cfg) == "src"

basePath(cfg) == IF isMonorepo(cfg) THEN "apps/web/src" ELSE "src"

\* DocumentationGenerator helpers
isNextJs(cfg) == cfg.framework = "next" \/ cfg.framework = "monorepo"
hasDatabase(cfg) == cfg.database # "none"
hasAuth(cfg) == cfg.auth # "none"
hasAI(cfg) == cfg.aiTemplate # Undefined /\ cfg.aiTemplate # "none"

\* TemplateEngine.createContext: the flags read by ScaffoldGenerator
createContext(cfg) ==
    [isNextJs |-> isNextJs(cfg), hasAI |-> hasAI(cfg),
     hasAuth |-> hasAuth(cfg), hasDatabase |-> hasDatabase(cfg)]

\* README text: the values interpolated by the README sections
generateREADME(cfg, isGitHubRepo) ==
    [doc |-> "README.md", github |-> isGitHubRepo,
     projectName |-> cfg.projectName, framework |-> cfg.framework,
     auth |-> cfg.auth, database |-> cfg.database, api |-> cfg.api,
     styling |-> cfg.styling,
     aiTemplate |-> IF hasAI(cfg) THEN cfg.aiTemplate ELSE "none",
     aiProvider |-> IF hasAI(cfg) THEN cfg.aiProvider ELSE "none",
     deployment |-> cfg.deployment]

\* faulty variant: the lookup ignores the selected provider
getAIProviderInfo_AlwaysAnthropic(provider) ==
    [displayName |-> "Anthropic Claude", setupUrl |-> "https://console.anthropic.com/",
     pricingUrl |-> "https://www.anthropic.com/pricing", envVarName |-> "ANTHROPIC_API_KEY"]

\* providers[provider] || providers.anthropic
getAIProviderInfo(provider) ==
    IF provider = "openai"
    THEN [displayName |-> "OpenAI", setupUrl |-> "https://platform.openai.com/",
          pricingUrl |-> "https://openai.com/pricing", envVarName |-> "OPENAI_API_KEY"]
    ELSE IF provider = "aws-bedrock"
    THEN [displayName |-> "AWS Bedrock", setupUrl |-> "https://aws.amazon.com/bedrock/",
          pricingUrl |-> "https://aws.amazon.com/bedrock/pricing/",
          envVarName |-> "AWS_BEDROCK_CREDENTIALS"]
    ELSE IF provider = "gemini"
    THEN [displayName |-> "Google Gemini", setupUrl |-> "https://ai.google.dev/",
          pricingUrl |-> "https://ai.google.dev/pricing", envVarName |-> "GEMINI_API_KEY"]
    ELSE [displayName |-> "Anthropic Claude", setupUrl |-> "https://console.anthropic.com/",
          pricingUrl |-> "https://www.anthropic.com/pricing",
          envVarName |-> "ANTHROPIC_API_KEY"]

\* this.config.aiProvider || 'anthropic'
selectedProvider(cfg) == IF cfg.aiProvider = Undefined THEN "anthropic" ELSE cfg.aiProvider

\* the paths listed under "Generated Files": API routes, then pages
getAITemplateFiles(cfg) ==
    IF cfg.aiTemplate = "chatbot"
    THEN <<"src/app/api/chat/route.ts", "src/app/chat/page.tsx">>
    ELSE IF cfg.aiTemplate = "document-analyzer"
    THEN <<"src/app/api/analyze/route.ts", "src/app/analyze/page.tsx">>
    ELSE IF cfg.aiTemplate = "semantic-search"
    THEN <<"src/app/api/search/route.ts", "src/app/search/page.tsx">>
    ELSE IF cfg.aiTemplate = "code-assistant"
    THEN <<"src/app/api/code-assistant/route.ts", "src/app/code-assistant/page.tsx">>
    ELSE IF cfg.aiTemplate = "image-generator"
    THEN <<"src/app/api/generate-image/route.ts", "src/app/generate-image/page.tsx">>
    ELSE <<>>

\* the "AI Integration Setup" section: no section (null) without an AI
\* template, otherwise the values interpolated into its text
getAISetup(cfg) ==
    IF ~hasAI(cfg) THEN <<>>
    ELSE <<[title |-> "AI Integration Setup",
            displayName |-> getAIProviderInfo(selectedProvider(cfg)).displayName,
            setupUrl |-> getAIProviderInfo(selectedProvider(cfg)).setupUrl,
            pricingUrl |-> getAIProviderInfo(selectedProvider(cfg)).pricingUrl,
            envLine |-> getAIProviderInfo(selectedProvider(cfg)).envVarName
                          \o "=your-api-key-here",
            generatedFiles |-> getAITemplateFiles(cfg)]>>

\* SETUP.md: the sections that are not null
generateSETUP(cfg) ==
    [doc |-> "SETUP.md",
     database |-> IF hasDatabase(cfg) THEN cfg.database ELSE "none",
     auth |-> IF hasAuth(cfg) THEN cfg.auth ELSE "none",
     ai |-> getAISetup(cfg)]

\* a DocumentationSection: its title and its declared order
Section(title, order) == <<[title |-> title, order |-> order]>>

\* the sections array of generateREADME
readmeSections(cfg) ==
    Section("Project Overview", 1) \o Section("Getting Started", 2)
    \o Section("Project Structure", 3) \o Section("Available Scripts", 4)
    \o Section("Deployment", 5) \o Section("Security", 7)
    \o Section("Troubleshooting", 6)

\* the sections array of generateSETUP without its null entries
setupSections(cfg) ==
    Section("Prerequisites", 1)
    \o When(hasDatabase(cfg), Section("Database Setup", 3))
    \o When(hasAuth(cfg), Section("Authentication Setup", 4))
    \o When(hasAI(cfg), Section("AI Integration Setup", 2))
    \o When(hasAuth(cfg) \/ hasDatabase(cfg) \/ hasAI(cfg), Section("External Services", 5))
    \o Section("Environment Variables", 6)

\* the sections array of generateDEPLOYMENT without its null entries
deploymentSections(cfg) ==
    Section("Deployment Overview", 1)
    \o When("vercel" \in cfg.deployment, Section("Vercel Deployment", 2))
    \o When("railway" \in cfg.deployment, Section("Railway Deployment", 3))
    \o When("render" \in cfg.deployment, Section("Render Deployment", 4))
    \o When("ec2" \in cfg.deployment, Section("EC2 Deployment", 5))
    \o When(hasAuth(cfg) /\ cfg.auth # "none", Section("OAuth Callback URLs", 10))

\* buildDocument: the sections in the order of the array, joined
buildDocument(sections) == [i \in 1..Len(sections) |-> sections[i]]

\* .env.example text: the lines pushed by generateEnvExample
generateEnvExample(cfg) ==
    <<"# Application", "NODE_ENV=development">>
    \o When(isNextJs(cfg), <<"NEXT_PUBLIC_APP_URL=http://localhost:3000">>)
    \o When(~isNextJs(cfg) /\ cfg.framework = "express", <<"PORT=4000">>)
    \o When(hasDatabase(cfg),
            <<"# Database",
              "getDatabaseEnvVars " \o cfg.database \o " " \o cfg.projectName>>)
    \o When(hasAuth(cfg), <<"# Authentication", "getAuthEnvVars " \o cfg.auth>>)
    \o When(hasAI(cfg),
            <<"# AI Integration",
              "# Keep API keys secure! Never commit real keys to version control.",
              "# Get your API key from: "
                 \o getAIProviderInfo(selectedProvider(cfg)).setupUrl,
              getAIProviderInfo(selectedProvider(cfg)).envVarName
                 \o "=your-api-key-here">>)
    \o When(cfg.extras.redis, <<"# Redis", "REDIS_URL=redis://localhost:6379">>)

generateMonorepoDocs(cfg) ==
    IF cfg.framework # "monorepo" THEN Undefined ELSE <<"MONOREPO.md", cfg.api, cfg.auth, cfg.database>>

BoolStr(b) == IF b THEN "true" ELSE "false"

\* TemplateCache.has / get / set through one lookup: the cached value when the
\* key is present, the freshly computed one otherwise
Cached(cache, key, computed) == IF key \in DOMAIN cache THEN cache[key] ELSE computed
CacheSet(cache, key, computed) ==
    IF key \in DOMAIN cache THEN cache
    ELSE [k \in DOMAIN cache \cup {key} |-> IF k = key THEN computed ELSE cache[k]]

readmeCacheKey(cfg) ==
    "readme-" \o cfg.framework \o "-" \o cfg.auth \o "-" \o cfg.database
envCacheKey(cfg) ==
    "env-" \o cfg.auth \o "-" \o cfg.database \o "-" \o
    (IF cfg.aiTemplate = Undefined THEN "undefined" ELSE cfg.aiTemplate)
tsconfigCacheKey(cfg) == "tsconfig-" \o BoolStr(createContext(cfg).isNextJs)

generateReadme(cfg, isGitHubRepo, cache) ==
    IF isGitHubRepo THEN generateREADME(cfg, TRUE)
    ELSE Cached(cache, readmeCacheKey(cfg), generateREADME(cfg, FALSE))

generateGitignore(cache) == Cached(cache, "gitignore-enhanced", <<"generateEnhancedGitignore">>)

generateEnvExampleCached(cfg, cache) ==
    Cached(cache, envCacheKey(cfg), generateEnvExample(cfg))

generateTsConfig(cfg, cache) ==
    Cached(cache, tsconfigCacheKey(cfg),
           [doc |-> "tsconfig.json", jsx |-> createContext(cfg).isNextJs,
            plugins |-> createContext(cfg).isNextJs])

generatePrettierConfig(cache) == Cached(cache, "prettier-config", <<"prettierrc">>)
generatePrettierIgnore(cache) == Cached(cache, "prettier-ignore", <<"prettierignore">>)

\* the cache after one generateFiles run
CacheAfter(cfg, isGitHubRepo, cache) ==
    LET c1 == IF isGitHubRepo THEN cache
              ELSE CacheSet(cache, readmeCacheKey(cfg), generateREADME(cfg, FALSE))
        c2 == CacheSet(c1, "gitignore-enhanced", <<"generateEnhancedGitignore">>)
        c3 == CacheSet(c2, envCacheKey(cfg), generateEnvExample(cfg))
        c4 == IF cfg.framework = "express" THEN c3
              ELSE CacheSet(c3, tsconfigCacheKey(cfg),
                       [doc |-> "tsconfig.json", jsx |-> createContext(cfg).isNextJs,
                        plugins |-> createContext(cfg).isNextJs])
        c5 == IF cfg.extras.prettier
              THEN CacheSet(CacheSet(c4, "prettier-config", <<"prettierrc">>),
                            "prettier-ignore", <<"prettierignore">>)
              ELSE c4
    IN c5

generateBaseFiles(cfg, isGitHubRepo, cache) ==
    <<F("README.md", generateReadme(cfg, isGitHubRepo, cache)),
      F(".gitignore", generateGitignore(cache)),
      F(".env.example", generateEnvExampleCached(cfg, cache))>>
    \o When(createContext(cfg).hasAI \/ createContext(cfg).hasAuth
              \/ createContext(cfg).hasDatabase,
            <<F("SETUP.md", generateSETUP(cfg))>>)
    \o When(Cardinality(cfg.deployment) > 0,
            <<F("DEPLOYMENT.md", <<"generateDEPLOYMENT">>)>>)
    \o When(generateMonorepoDocs(cfg) # Undefined,
            <<F("MONOREPO.md", generateMonorepoDocs(cfg))>>)

generateConfigFiles(cfg, cache) ==
    (IF cfg.framework = "express"
     THEN <<F("tsconfig.json", <<"generateExpressTsConfig">>)>>
     ELSE <<F("tsconfig.json", generateTsConfig(cfg, cache))>>)
    \o <<F("eslint.config.mjs", <<"generateEslintConfig">>)>>
    \o When(cfg.extras.prettier,
            <<F(".prettierrc", generatePrettierConfig(cache)),
              F(".prettierignore", generatePrettierIgnore(cache))>>)
    \o When(cfg.extras.husky,
            <<F(".husky/pre-commit", <<"generateHuskyPreCommit">>),
              F(".husky/commit-msg", <<"generateHuskyCommitMsg">>),
              F("commitlint.config.js", <<"generateCommitlintConfig">>)>>)
    \o When("vercel" \in cfg.deployment, <<F("vercel.json", <<"generateVercelConfig">>)>>)
    \o When("railway" \in cfg.deployment, <<F("railway.json", <<"generateRailwayConfig">>)>>)
    \o When(cfg.extras.docker,
            <<F("Dockerfile", <<"generateDockerfile">>),
              F("docker-compose.yml", <<"generateDockerCompose">>),
              F(".dockerignore", <<"generateDockerignore">>)>>)
    \o When(cfg.extras.githubActions,
            <<F(".github/workflows/ci.yml", <<"generateGithubActionsWorkflow">>)>>)
    \o When("ec2" \in cfg.deployment,
            <<F("deploy/setup.sh", <<"generateEC2SetupScript">>),
              F("deploy/deploy.sh", <<"generateEC2DeployScript">>),
              F("deploy/" \o cfg.projectName \o ".service", <<"generateSystemdService">>),
              F("deploy/nginx.conf", <<"generateNginxConfig">>)>>)

\* styling files shared by the monorepo web app (prefix "apps/web/") and the
\* standalone Next.js app (prefix "")
StylingFiles(cfg, root) ==
    IF cfg.styling = "tailwind"
    THEN <<F(root \o "tailwind.config.ts", <<"generateTailwindConfig">>),
           F(root \o "postcss.config.mjs", <<"generatePostCssConfig">>)>>
         \o When(cfg.shadcn,
              <<F(root \o "components.json", <<"generateComponentsJson">>),
                F(root \o "src/lib/utils.ts", <<"generateTailwindUtils">>),
                F(root \o "src/components/ui/button.tsx", <<"generateShadcnButton">>),
                F(root \o "src/components/ui/card.tsx", <<"generateShadcnCard">>),
                F(root \o "src/components/ui/input.tsx", <<"generateShadcnInput">>),
                F(root \o "src/app/components/page.tsx", <<"generateShadcnUsageExample">>)>>)
    ELSE IF cfg.styling = "css-modules"
    THEN <<F(root \o "src/app/page.module.css", <<"generateCssModulesExample">>),
           F(root \o "src/components/Button.tsx", <<"generateCssModulesButtonComponent">>),
           F(root \o "src/components/Button.module.css", <<"generateCssModulesButton">>),
           F(root \o "src/components/Card.tsx", <<"generateCssModulesCardComponent">>),
           F(root \o "src/components/Card.module.css", <<"generateCssModulesCard">>),
           F(root \o "src/app/components/page.tsx", <<"generateCssModulesUsageExample">>),
           F(root \o "src/app/components/page.module.css", <<"generateCssModulesUsageExampleStyles">>)>>
    ELSE IF cfg.styling = "styled-components"
    THEN <<F(root \o "src/lib/theme.ts", <<"generateStyledComponentsTheme">>),
           F(root \o "src/lib/global-styles.ts", <<"generateStyledComponentsGlobalStyles">>),
           F(root \o "src/lib/styled-components-provider.tsx", <<"generateStyledComponentsProvider">>),
           F(root \o "src/lib/registry.tsx", <<"generateStyledComponentsRegistry">>),
           F(root \o "src/components/Button.tsx", <<"generateStyledComponentsButton">>),
           F(root \o "src/components/Card.tsx", <<"generateStyledComponentsCard">>),
           F(root \o "src/app/components/page.tsx", <<"generateStyledComponentsUsageExample">>)>>
    ELSE <<>>

generateMonorepoFiles(cfg) ==
    <<F("package.json", <<"generatePackageJson">>),
      F("turbo.json", <<"generateTurboConfig">>),
      F("apps/web/package.json", <<"generateWebAppPackageJson">>),
      F("apps/web/next.config.ts", <<"generateNextConfig">>),
      F("apps/web/src/app/layout.tsx", <<"generateNextJsLayout">>),
      F("apps/web/src/app/page.tsx", <<"generateNextJsHomePage">>),
      F("apps/web/src/app/globals.css", <<"generateGlobalsCss">>)>>
    \o StylingFiles(cfg, "apps/web/")
    \o <<F("apps/api/package.json", <<"generateApiAppPackageJson">>),
         F("apps/api/src/index.ts", <<"generateMonorepoExpressIndex">>),
         F("apps/api/src/routes/index.ts", <<"generateExpressRoutes">>),
         F("packages/shared-types/package.json", <<"generateSharedTypesPackageJson">>),
         F("packages/shared-types/src/index.ts", <<"generateSharedTypesIndex">>),
         F("packages/config/package.json", <<"generateConfigPackageJson">>)>>

generateNextJsFiles(cfg) ==
    <<F("package.json", <<"generatePackageJson">>),
      F("next.config.ts", <<"generateNextConfig">>),
      F("src/app/layout.tsx", <<"generateNextJsLayout">>),
      F("src/app/page.tsx", <<"generateNextJsHomePage">>)>>
    \o When(cfg.projectStructure = "nextjs-only",
            <<F("src/app/api/hello/route.ts", <<"generateHelloApiRoute">>),
              F("src/app/api/users/route.ts", <<"generateUsersApiRoute">>)>>)
    \o <<F("src/app/globals.css", <<"generateGlobalsCss">>)>>
    \o StylingFiles(cfg, "")

generateExpressFiles(cfg) ==
    <<F("package.json", <<"generatePackageJson">>),
      F("src/index.ts", <<"generateExpressIndex">>),
      F("src/routes/index.ts", <<"generateExpressRoutes">>),
      F("src/middleware/index.ts", <<"generateExpressMiddleware">>)>>

generateReactSpaFiles(cfg) ==
    <<F("package.json", <<"generatePackageJson">>)>>
    \o When((IF cfg.buildTool = "auto" THEN "vite" ELSE cfg.buildTool) = "vite",
            <<F("vite.config.ts", <<"generateViteConfig">>)>>)
    \o <<F("src/main.tsx", <<"generateReactMain">>),
         F("src/App.tsx", <<"generateReactApp">>),
         F("index.html", <<"generateIndexHtml">>)>>
    \o When(cfg.styling = "tailwind",
            <<F("src/index.css", <<"generateGlobalsCss">>),
              F("tailwind.config.ts", <<"generateTailwindConfig">>),
              F("postcss.config.mjs", <<"generatePostCssConfig">>)>>)

generateProjectFiles(cfg) ==
    IF cfg.projectStructure = "fullstack-monorepo" THEN generateMonorepoFiles(cfg)
    ELSE IF cfg.projectStructure = "nextjs-only" THEN generateNextJsFiles(cfg)
    ELSE IF cfg.projectStructure = "react-spa" THEN generateReactSpaFiles(cfg)
    ELSE IF cfg.projectStructure = "express-api-only" THEN generateExpressFiles(cfg)
    ELSE IF cfg.framework = "monorepo" THEN generateMonorepoFiles(cfg)
    ELSE IF cfg.framework = "next" THEN generateNextJsFiles(cfg)
    ELSE IF cfg.framework = "express" THEN generateExpressFiles(cfg)
    ELSE <<>>

AiRouteName(aiTemplate) ==
    CASE aiTemplate = "chatbot" -> "chat"
      [] aiTemplate = "document-analyzer" -> "analyze"
      [] aiTemplate = "semantic-search" -> "search"
      [] aiTemplate = "code-assistant" -> "code-assistant"
      [] aiTemplate = "image-generator" -> "generate-image"
      [] OTHER -> Undefined

\* faulty variant: the react-spa structure is not skipped
generateAITemplateFiles_NoSpaSkip(cfg) ==
    IF cfg.projectStructure = "express-api-only" THEN <<>>
    ELSE IF AiRouteName(cfg.aiTemplate) = Undefined THEN <<>>
    ELSE <<F(basePath(cfg) \o "/app/api/" \o AiRouteName(cfg.aiTemplate) \o "/route.ts",
             <<"aiApiRoute", cfg.aiTemplate>>),
           F(basePath(cfg) \o "/app/" \o AiRouteName(cfg.aiTemplate) \o "/page.tsx",
             <<"aiPage", cfg.aiTemplate>>)>>

generateAITemplateFiles(cfg) ==
    IF cfg.projectStructure = "express-api-only" \/ cfg.projectStructure = "react-spa"
    THEN <<>>
    ELSE IF AiRouteName(cfg.aiTemplate) = Undefined THEN <<>>
    ELSE <<F(basePath(cfg) \o "/app/api/" \o AiRouteName(cfg.aiTemplate) \o "/route.ts",
             <<"aiApiRoute", cfg.aiTemplate>>),
           F(basePath(cfg) \o "/app/" \o AiRouteName(cfg.aiTemplate) \o "/page.tsx",
             <<"aiPage", cfg.aiTemplate>>)>>

generateAuthFiles(cfg) ==
    IF cfg.projectStructure = "express-api-only" THEN <<>>
    ELSE IF cfg.auth = "nextauth"
    THEN <<F(basePath(cfg) \o "/lib/auth.ts", <<"generateNextAuthConfig">>),
           F(basePath(cfg) \o "/app/api/auth/[...nextauth]/route.ts", <<"generateNextAuthRoute">>),
           F("middleware.ts", <<"generateNextAuthMiddleware">>),
           F(basePath(cfg) \o "/components/auth-provider.tsx", <<"generateSessionProvider">>),
           F(basePath(cfg) \o "/app/auth/signin/page.tsx", <<"generateSignInPage">>),
           F(basePath(cfg) \o "/app/auth/error/page.tsx", <<"generateAuthErrorPage">>)>>
    ELSE IF cfg.auth = "supabase"
    THEN <<F(basePath(cfg) \o "/lib/supabase-client.ts", <<"generateSupabaseClient">>),
           F(basePath(cfg) \o "/lib/supabase-server.ts", <<"generateSupabaseServerClient">>),
           F(basePath(cfg) \o "/lib/auth-helpers.ts", <<"generateSupabaseAuthHelpers">>),
           F("supabase/migrations/001_initial_schema.sql", <<"generateSupabaseMigration">>)>>
    ELSE IF cfg.auth = "clerk"
    THEN <<F("middleware.ts", <<"generateClerkMiddleware">>),
           F(basePath(cfg) \o "/components/clerk-user-button.tsx", <<"generateClerkUserButton">>),
           F(basePath(cfg) \o "/app/sign-in/[[...sign-in]]/page.tsx", <<"generateClerkSignInPage">>),
           F(basePath(cfg) \o "/app/sign-up/[[...sign-up]]/page.tsx", <<"generateClerkSignUpPage">>)>>
    ELSE <<>>

generateDatabaseFiles(cfg) ==
    (IF cfg.database = "prisma-postgres"
     THEN <<F("prisma/schema.prisma", <<"generatePrismaSchema">>),
            F(basePath(cfg) \o "/lib/prisma.ts", <<"generatePrismaClient">>),
            F(basePath(cfg) \o "/lib/db-queries.ts", <<"generatePrismaQueries">>),
            F("scripts/migrate.sh", <<"generatePrismaMigrationScript">>)>>
     ELSE IF cfg.database = "drizzle-postgres"
     THEN <<F(basePath(cfg) \o "/lib/db/schema.ts", <<"generateDrizzleSchema">>),
            F(basePath(cfg) \o "/lib/db/db.ts", <<"generateDrizzleClient">>),
            F(basePath(cfg) \o "/lib/db/queries.ts", <<"generateDrizzleQueries">>),
            F("drizzle.config.ts", <<"generateDrizzleConfig">>),
            F("scripts/migrate.sh", <<"generateDrizzleMigrationScript">>)>>
     ELSE IF cfg.database = "supabase"
     THEN When(cfg.auth # "supabase",
               <<F(basePath(cfg) \o "/lib/supabase-client.ts", <<"generateSupabaseClient">>),
                 F(basePath(cfg) \o "/lib/supabase-server.ts", <<"generateSupabaseServerClient">>)>>)
          \o <<F(basePath(cfg) \o "/lib/db-queries.ts", <<"generateSupabaseQueries">>)>>
          \o When(cfg.auth # "supabase",
               <<F("supabase/migrations/001_initial_schema.sql", <<"generateSupabaseMigration">>)>>)
     ELSE <<>>)
    \o When(cfg.extras.redis,
            <<F(basePath(cfg) \o "/lib/redis-client.ts", <<"generateRedisClient">>),
              F(basePath(cfg) \o "/lib/cache-helpers.ts", <<"generateRedisCacheHelpers">>),
              F(basePath(cfg) \o "/lib/cache-examples.ts", <<"generateRedisExamples">>)>>)

generateApiLayerFiles(cfg) ==
    IF cfg.projectStructure = "react-spa" THEN <<>>
    ELSE IF cfg.api = "rest-fetch"
    THEN <<F(basePath(cfg) \o "/lib/api-client.ts", <<"generateFetchApiClient">>),
           F(basePath(cfg) \o "/app/api/users/route.ts", <<"generateRestApiRouteExamples">>),
           F(basePath(cfg) \o "/app/api/users/[id]/route.ts", <<"generateRestApiSingleResourceRoute">>)>>
    ELSE IF cfg.api = "rest-axios"
    THEN <<F(basePath(cfg) \o "/lib/api-client.ts", <<"generateAxiosApiClient">>),
           F(basePath(cfg) \o "/app/api/users/route.ts", <<"generateRestApiRouteExamples">>),
           F(basePath(cfg) \o "/app/api/users/[id]/route.ts", <<"generateRestApiSingleResourceRoute">>)>>
    ELSE IF cfg.api = "trpc"
    THEN <<F(basePath(cfg) \o "/lib/trpc/router.ts", <<"generateTrpcRouter">>),
           F(basePath(cfg) \o "/app/api/trpc/[trpc]/route.ts", <<"generateTrpcApiRoute">>),
           F(basePath(cfg) \o "/lib/trpc/client.ts", <<"generateTrpcClient">>),
           F(basePath(cfg) \o "/lib/trpc/provider.tsx", <<"generateTrpcProvider">>),
           F(basePath(cfg) \o "/app/users/page.tsx", <<"generateTrpcUsageExample">>)>>
    ELSE IF cfg.api = "graphql"
    THEN <<F(basePath(cfg) \o "/lib/graphql/schema.ts", <<"generateGraphQLSchema">>),
           F(basePath(cfg) \o "/app/api/graphql/route.ts", <<"generateGraphQLApiRoute">>),
           F(basePath(cfg) \o "/lib/graphql/client.ts", <<"generateApolloClient">>),
           F(basePath(cfg) \o "/lib/graphql/provider.tsx", <<"generateApolloProvider">>),
           F(basePath(cfg) \o "/lib/graphql/queries.ts", <<"generateGraphQLQueries">>),
           F(basePath(cfg) \o "/app/users/page.tsx", <<"generateGraphQLUsageExample">>)>>
    ELSE <<>>

\* faulty variant: the auth pages are pushed without testing hasAuth
generateTemplatePages_AlwaysAuthPages(cfg) ==
    IF cfg.projectStructure = "express-api-only" THEN <<>>
    ELSE <<F(basePath(cfg) \o "/app/dashboard/page.tsx", <<"generateTemplateDashboardPage">>),
           F(basePath(cfg) \o "/app/signin/page.tsx", <<"generateTemplateSignInPage">>),
           F(basePath(cfg) \o "/app/signup/page.tsx", <<"generateTemplateSignUpPage">>),
           F(basePath(cfg) \o "/app/forgot-password/page.tsx", <<"generateTemplateForgotPasswordPage">>)>>

generateTemplatePages(cfg) ==
    IF cfg.projectStructure = "express-api-only" THEN <<>>
    ELSE <<F(basePath(cfg) \o "/app/dashboard/page.tsx", <<"generateTemplateDashboardPage">>)>>
         \o When(cfg.auth # "none",
              <<F(basePath(cfg) \o "/app/signin/page.tsx", <<"generateTemplateSignInPage">>),
                F(basePath(cfg) \o "/app/signup/page.tsx", <<"generateTemplateSignUpPage">>),
                F(basePath(cfg) \o "/app/forgot-password/page.tsx", <<"generateTemplateForgotPasswordPage">>)>>)

\* fileGroups.flat() over the groups pushed by generateFiles
generateFiles(cfg, isGitHubRepo, cache) ==
    generateBaseFiles(cfg, isGitHubRepo, cache)
    \o generateConfigFiles(cfg, cache)
    \o generateProjectFiles(cfg)
    \o generateTemplatePages(cfg)
    \o When(cfg.aiTemplate # Undefined /\ cfg.aiTemplate # "none", generateAITemplateFiles(cfg))
    \o When(cfg.auth # "none", generateAuthFiles(cfg))
    \o When(cfg.database # "none", generateDatabaseFiles(cfg))
    \o When(cfg.api # Undefined, generateApiLayerFiles(cfg))

Paths(fs) == [i \in 1..Len(fs) |-> fs[i].path]
NoDuplicates(seq) == \A i, j \in 1..Len(seq) : i # j => seq[i] # seq[j]

EmptyCache == [k \in {} |-> <<>>]

NoExtras == [docker |-> FALSE, githubActions |-> FALSE, redis |-> FALSE,
             prettier |-> TRUE, husky |-> FALSE]
AllExtras == [docker |-> TRUE, githubActions |-> TRUE, redis |-> TRUE,
              prettier |-> TRUE, husky |-> TRUE]
RedisOnly == [docker |-> FALSE, githubActions |-> FALSE, redis |-> TRUE,
              prettier |-> FALSE, husky |-> FALSE]

\* the configuration of the first scenario of the test plan (the wizard's default)
BaseConfig ==
    [projectName |-> "my-app", framework |-> "next",
     projectStructure |-> "nextjs-only", buildTool |-> "auto",
     auth |-> "none", database |-> "none", api |-> "rest-fetch",
     styling |-> "tailwind", shadcn |-> TRUE, deployment |-> {"vercel"},
     aiTemplate |-> "none", aiProvider |-> "anthropic", extras |-> NoExtras]

\* deployment targets and extras, chosen together
Tooling == {<<{"vercel"}, NoExtras>>, <<{"ec2", "railway"}, AllExtras>>,
            <<{"render"}, RedisOnly>>}

\* every combination of the axes that decide which files exist
PathConfigsOver(base) ==
    {[base EXCEPT !.framework = fw, !.projectStructure = ps, !.buildTool = bt,
                        !.auth = au, !.database = db, !.api = ap,
                        !.styling = st[1], !.shadcn = st[2], !.aiTemplate = ai,
                        !.deployment = tl[1], !.extras = tl[2]] :
        fw \in LegacyFrameworks, ps \in ProjectStructures \cup {Undefined},
        bt \in {"auto", "webpack"}, au \in AuthOptions, db \in DatabaseOptions,
        ap \in ApiOptions,
        st \in {<<"tailwind", TRUE>>, <<"tailwind", FALSE>>,
                <<"css-modules", FALSE>>, <<"styled-components", FALSE>>},
        ai \in AiTemplates \cup {Undefined}, tl \in Tooling}

\* configurations requested from one long-lived process
ProjectNames == {"my-app", "other-app"}
CacheConfigs ==
    {[BaseConfig EXCEPT !.projectName = pn, !.framework = fw, !.aiTemplate = ai,
                        !.aiProvider = pr, !.extras = ex] :
        pn \in ProjectNames, fw \in {"next", "express"}, ai \in {"none", "chatbot"},
        pr \in {"anthropic", "openai"}, ex \in {NoExtras, RedisOnly}}

\* number of generate calls made in one process
MaxGenerate == 2

GenIdle ==
    /\ genConfig = BaseConfig
    /\ genGitHub = FALSE
    /\ genPc = "idle"
    /\ genFiles = <<>>
    /\ templateCache = EmptyCache
    /\ genCount = 0

\* a fresh process serving one request
PathsInit ==
    /\ genConfig \in {c \in PathConfigsOver(BaseConfig) :
                        /\ (c.buildTool = "auto" \/ c.projectStructure = "react-spa")}
    /\ genGitHub = FALSE
    /\ genPc = "requested"
    /\ genFiles = <<>>
    /\ templateCache = EmptyCache
    /\ genCount = 1

\* configurations that select what the documents say about AI
DocConfigs ==
    {[BaseConfig EXCEPT !.framework = fw, !.projectStructure = Undefined,
                        !.auth = au, !.database = db,
                        !.aiTemplate = ai, !.aiProvider = pr, !.extras = ex] :
        fw \in LegacyFrameworks, au \in {"none", "clerk"}, db \in {"none", "supabase"},
        ai \in AiTemplates \cup {Undefined}, pr \in AiProviders \cup {Undefined},
        ex \in {NoExtras, RedisOnly}}

DocsInit ==
    /\ genConfig \in DocConfigs
    /\ genGitHub = FALSE
    /\ genPc = "requested"
    /\ genFiles = <<>>
    /\ templateCache = EmptyCache
    /\ genCount = 1

\* POST /api/generate: new ScaffoldGenerator(config)
Request ==
    /\ genPc \in {"idle", "done"}
    /\ genCount < MaxGenerate
    /\ \E c \in CacheConfigs, gh \in BOOLEAN :
          /\ genConfig' = c
          /\ genGitHub' = gh
    /\ genPc' = "requested"
    /\ genFiles' = <<>>
    /\ genCount' = genCount + 1
    /\ UNCHANGED templateCache

\* ScaffoldGenerator.generate
Generate ==
    /\ genPc = "requested"
    /\ genFiles' = generateFiles(genConfig, genGitHub, templateCache)
    /\ templateCache' = CacheAfter(genConfig, genGitHub, templateCache)
    /\ genPc' = "done"
    /\ UNCHANGED <<genConfig, genGitHub, genCount>>

(***************************************************************************)
(* Remote repository and GitOperationsService.createInitialCommit          *)
(***************************************************************************)
NoSha == 0

\* largest file set handed to createInitialCommit
MaxFiles == 3
\* invocations of createInitialCommit on one repository (first call + retries)
MaxAttempts == 2
\* commits pushed to heads/main by another writer
MaxOtherWrites == 2

PathPool == {"README.md", ".gitignore", "package.json"}
Contents == {"v1", "v2"}
CommitMessages == {"Initial commit from StackForge", "feat: scaffold my-app"}
OtherPath == "NOTES.md"

GeneratedFiles == [path : PathPool, content : Contents]

RECURSIVE FileSeqs(_)
FileSeqs(n) ==
    IF n = 0 THEN {<<>>}
    ELSE LET shorter == FileSeqs(n - 1)
         IN shorter \cup
            {Append(fs, f) : fs \in {x \in shorter : Len(x) = n - 1}, f \in GeneratedFiles}

\* file sets as the generator is meant to produce them: one entry per path
FileSets == {fs \in FileSeqs(MaxFiles) : NoDuplicates(Paths(fs))}

EmptyTree == [p \in {} |-> ""]

\* git/trees: the entries of base_tree, replaced or extended by the listed items
TreeWith(items, baseTree) ==
    LET itemPaths == {items[i].path : i \in 1..Len(items)}
        last(p) == CHOOSE i \in 1..Len(items) :
                      /\ items[i].path = p
                      /\ \A j \in 1..Len(items) : items[j].path = p => j <= i
    IN [p \in DOMAIN baseTree \cup itemPaths |->
           IF p \in itemPaths THEN items[last(p)].sha ELSE baseTree[p]]

TreeOf(sha) == IF sha = NoSha THEN EmptyTree ELSE commits[sha].tree

\* TRUE iff commit a is b or an ancestor of b
RECURSIVE IsAncestorOrEqual(_, _)
IsAncestorOrEqual(a, b) ==
    IF b = NoSha THEN FALSE
    ELSE IF a = b THEN TRUE
    ELSE \E i \in 1..Len(commits[b].parents) : IsAncestorOrEqual(a, commits[b].parents[i])

\* faulty variant: the reference update is forced
updateReferenceForce_True == TRUE

\* updateReference(ref, sha, force = false): the default of the force parameter
updateReferenceForce == FALSE

\* faulty variant: off-by-one in the test for remaining files
hasRemainingFiles_AtLeastOne(fs) == Len(fs) >= 1

\* `if (files.length > 1)`: the remaining files go through the Git data API
hasRemainingFiles(fs) == Len(fs) > 1

\* remainingFiles = files.slice(1)
remainingFiles(fs) == SubSeq(fs, 2, Len(fs))

\* the catch block of createInitialCommit
Thrown(message) == [threw |-> TRUE, prefix |-> "Failed to create initial commit: ", message |-> message]
Returned(sha) == [threw |-> FALSE, sha |-> sha]
NoResult == [threw |-> FALSE, sha |-> NoSha]

NetworkSteps == {"createFileViaContentsAPI", "getReference", "getCommit", "createBlob",
                 "createTree", "createCommit", "updateReference", "getReferenceSingle"}

NoHist == [bootstrap |-> NoSha, firstBootstrap |-> NoSha, failKind |-> "none",
           otherHeads |-> {}, otherWrites |-> 0]

GitIdle ==
    /\ ref = NoSha
    /\ commits = <<>>
    /\ pc = "idle"
    /\ files = <<>>
    /\ commitMessage = "Initial commit from StackForge"
    /\ mainRef = NoSha
    /\ currentCommit = EmptyTree
    /\ treeItems = <<>>
    /\ newTree = EmptyTree
    /\ newCommit = NoSha
    /\ ret = NoResult
    /\ callLog = <<>>
    /\ attempt = 0
    /\ hist = NoHist


NotGit == <<storeVars, deriveVars, genVars, uiVars>>

\* the request the pipeline issues at its current position
CurrentCall ==
    CASE pc = "createFileViaContentsAPI" -> <<pc, files[1].path>>
      [] pc = "getCommit" -> <<pc, ToString(mainRef)>>
      [] pc = "createBlob" -> <<pc, ToString(Len(treeItems) + 1)>>
      [] OTHER -> <<pc, "">>

\* entry of createInitialCommit up to its first network call
Start(fs, msg, n) ==
    /\ files' = fs
    /\ commitMessage' = msg
    /\ attempt' = n
    /\ mainRef' = NoSha
    /\ currentCommit' = EmptyTree
    /\ treeItems' = <<>>
    /\ newTree' = EmptyTree
    /\ newCommit' = NoSha
    /\ callLog' = <<>>
    /\ IF Len(fs) = 0
       THEN /\ pc' = "failed"
            /\ ret' = Thrown("No files to commit")
            /\ hist' = [hist EXCEPT !.bootstrap = NoSha, !.failKind = "rejected"]
       ELSE /\ pc' = "createFileViaContentsAPI"
            /\ ret' = NoResult
            /\ hist' = [hist EXCEPT !.bootstrap = NoSha, !.failKind = "none"]
    /\ UNCHANGED <<ref, commits, NotGit>>

\* the caller publishes a file set to the freshly created repository
Invoke ==
    /\ pc = "idle"
    /\ \E fs \in FileSets, msg \in CommitMessages : Start(fs, msg, 1)

\* the caller re-invokes the publish operation with the same arguments
Retry ==
    /\ pc = "failed"
    /\ attempt < MaxAttempts
    /\ Start(files, commitMessage, attempt + 1)

Fail(message, kind) ==
    /\ pc' = "failed"
    /\ ret' = Thrown(message)
    /\ hist' = [hist EXCEPT !.failKind = kind]

\* the fetch of the current network call never settles: no call of the
\* service passes a timeout or an abort signal, so the await does not resume
NoResponse ==
    /\ pc \in NetworkSteps
    /\ callLog' = Append(callLog, CurrentCall)
    /\ pc' = "awaiting"
    /\ UNCHANGED <<ref, commits, files, commitMessage, attempt, mainRef, currentCommit,
                   treeItems, newTree, newCommit, ret, hist, NotGit>>

\* PUT contents/{path} without a sha: creates the file and a commit on the
\* branch; rejected when the path already exists on the branch
createFileViaContentsAPI ==
    /\ pc = "createFileViaContentsAPI"
    /\ callLog' = Append(callLog, CurrentCall)
    /\ IF files[1].path \in DOMAIN TreeOf(ref)
       THEN /\ Fail("Failed to create file via Contents API", "rejected")
            /\ UNCHANGED <<ref, commits>>
       ELSE /\ commits' = Append(commits,
                  [tree |-> TreeWith(<<[path |-> files[1].path, sha |-> files[1].content]>>,
                                     TreeOf(ref)),
                   parents |-> IF ref = NoSha THEN <<>> ELSE <<ref>>,
                   message |-> "Initial commit",
                   api |-> "contents"])
            /\ ref' = Len(commits) + 1
            /\ pc' = IF hasRemainingFiles(files) THEN "getReference" ELSE "getReferenceSingle"
            /\ hist' = [hist EXCEPT !.bootstrap = Len(commits) + 1,
                                    !.firstBootstrap = IF @ = NoSha THEN Len(commits) + 1 ELSE @]
            /\ UNCHANGED ret
    /\ UNCHANGED <<files, commitMessage, attempt, mainRef, currentCommit, treeItems,
                   newTree, newCommit, NotGit>>

\* const mainRef = await this.getReference('heads/main')
getReference ==
    /\ pc = "getReference"
    /\ callLog' = Append(callLog, CurrentCall)
    /\ IF ref = NoSha
       THEN /\ Fail("Main branch not found after initial file creation", "rejected")
            /\ UNCHANGED mainRef
       ELSE /\ mainRef' = ref
            /\ pc' = "getCommit"
            /\ UNCHANGED <<ret, hist>>
    /\ UNCHANGED <<ref, commits, files, commitMessage, attempt, currentCommit, treeItems,
                   newTree, newCommit, NotGit>>

\* const currentCommit = await this.getCommit(mainRef.object.sha)
getCommit ==
    /\ pc = "getCommit"
    /\ callLog' = Append(callLog, CurrentCall)
    /\ currentCommit' = commits[mainRef].tree
    /\ pc' = IF Len(remainingFiles(files)) = 0 THEN "createTree" ELSE "createBlob"
    /\ UNCHANGED <<ref, commits, files, commitMessage, attempt, mainRef, treeItems,
                   newTree, newCommit, ret, hist, NotGit>>

\* faulty variant: each remaining file is written through the Contents API, which
\* commits it on the branch at once
createBlob_ViaContentsAPI ==
    /\ pc = "createBlob"
    /\ callLog' = Append(callLog, CurrentCall)
    /\ LET file == remainingFiles(files)[Len(treeItems) + 1]
       IN /\ treeItems' = Append(treeItems, [path |-> file.path, sha |-> file.content])
          /\ commits' = Append(commits,
                [tree |-> TreeWith(<<[path |-> file.path, sha |-> file.content]>>, TreeOf(ref)),
                 parents |-> <<ref>>, message |-> commitMessage, api |-> "contents"])
    /\ ref' = Len(commits) + 1
    /\ pc' = IF Len(treeItems) + 1 = Len(remainingFiles(files)) THEN "createTree" ELSE "createBlob"
    /\ UNCHANGED <<files, commitMessage, attempt, mainRef, currentCommit,
                   newTree, newCommit, ret, hist, NotGit>>

\* one iteration of the loop of createBlobsForFiles
createBlob ==
    /\ pc = "createBlob"
    /\ callLog' = Append(callLog, CurrentCall)
    /\ LET file == remainingFiles(files)[Len(treeItems) + 1]
       IN treeItems' = Append(treeItems, [path |-> file.path, sha |-> file.content])
    /\ pc' = IF Len(treeItems) + 1 = Len(remainingFiles(files)) THEN "createTree" ELSE "createBlob"
    /\ UNCHANGED <<ref, commits, files, commitMessage, attempt, mainRef, currentCommit,
                   newTree, newCommit, ret, hist, NotGit>>

\* faulty variant: the tree is created without base_tree
createTree_NoBaseTree ==
    /\ pc = "createTree"
    /\ callLog' = Append(callLog, CurrentCall)
    /\ newTree' = TreeWith(treeItems, EmptyTree)
    /\ pc' = "createCommit"
    /\ UNCHANGED <<ref, commits, files, commitMessage, attempt, mainRef, currentCommit,
                   treeItems, newCommit, ret, hist, NotGit>>

\* const newTree = await this.createTree(treeItems, currentCommit.tree.sha)
createTree ==
    /\ pc = "createTree"
    /\ callLog' = Append(callLog, CurrentCall)
    /\ newTree' = TreeWith(treeItems, currentCommit)
    /\ pc' = "createCommit"
    /\ UNCHANGED <<ref, commits, files, commitMessage, attempt, mainRef, currentCommit,
                   treeItems, newCommit, ret, hist, NotGit>>

\* const newCommit = await this.createCommit(newTree.sha, commitMessage, author, [mainRef.object.sha])
createCommit ==
    /\ pc = "createCommit"
    /\ callLog' = Append(callLog, CurrentCall)
    /\ commits' = Append(commits,
          [tree |-> newTree, parents |-> <<mainRef>>, message |-> commitMessage,
           api |-> "git"])
    /\ newCommit' = Len(commits) + 1
    /\ pc' = "updateReference"
    /\ UNCHANGED <<ref, files, commitMessage, attempt, mainRef, currentCommit,
                   treeItems, newTree, ret, hist, NotGit>>

\* await this.updateReference('heads/main', newCommit.sha): without force the
\* remote accepts fast-forward updates only
updateReference ==
    /\ pc = "updateReference"
    /\ callLog' = Append(callLog, CurrentCall)
    /\ IF ref # NoSha /\ (updateReferenceForce \/ IsAncestorOrEqual(ref, newCommit))
       THEN /\ ref' = newCommit
            /\ pc' = "done"
            /\ ret' = Returned(newCommit)
            /\ UNCHANGED hist
       ELSE /\ Fail("Failed to update reference", "rejected")
            /\ UNCHANGED ref
    /\ UNCHANGED <<commits, files, commitMessage, attempt, mainRef, currentCommit,
                   treeItems, newTree, newCommit, NotGit>>

\* single file: return mainRef?.object.sha || ''
getReferenceSingle ==
    /\ pc = "getReferenceSingle"
    /\ callLog' = Append(callLog, CurrentCall)
    /\ ret' = Returned(ref)
    /\ pc' = "done"
    /\ UNCHANGED <<ref, commits, files, commitMessage, attempt, mainRef, currentCommit,
                   treeItems, newTree, newCommit, hist, NotGit>>

\* faulty variant: a failed call is issued again instead of being surfaced
StepFails_Retries ==
    /\ pc \in NetworkSteps
    /\ Len(callLog) < MaxFiles + 8
    /\ callLog' = Append(callLog, CurrentCall)
    /\ UNCHANGED <<pc, ret, hist, ref, commits, files, commitMessage, attempt, mainRef,
                   currentCommit, treeItems, newTree, newCommit, NotGit>>

\* any network call may fail (credentials, rate limit, network): the helper
\* throws, and the catch block of createInitialCommit rethrows
StepFails ==
    /\ pc \in NetworkSteps
    /\ callLog' = Append(callLog, CurrentCall)
    /\ Fail(pc, "fault")
    /\ UNCHANGED <<ref, commits, files, commitMessage, attempt, mainRef, currentCommit,
                   treeItems, newTree, newCommit, NotGit>>

\* the network calls of pushToExistingBranch
PushBranchSteps == {"pushGetReference", "pushCreateBlob", "pushCreateTree",
                    "pushCreateCommit", "pushUpdateReference"}

\* the caller pushes a non-empty file set to the branch, on a repository no
\* other operation of the service is working on
InvokePush ==
    /\ pc \in {"idle", "done"}
    /\ \E fs \in FileSets \ {<<>>}, msg \in CommitMessages :
          /\ files' = fs
          /\ commitMessage' = msg
    /\ mainRef' = NoSha
    /\ treeItems' = <<>>
    /\ newTree' = EmptyTree
    /\ newCommit' = NoSha
    /\ callLog' = <<>>
    /\ ret' = NoResult
    /\ pc' = "pushGetReference"
    /\ UNCHANGED <<ref, commits, attempt, currentCommit, hist, NotGit>>

\* const ref = await this.getReference(`heads/${branchName}`)
pushGetReference ==
    /\ pc = "pushGetReference"
    /\ callLog' = Append(callLog, CurrentCall)
    /\ IF ref = NoSha
       THEN /\ pc' = "pushFailed"
            /\ ret' = Thrown("Branch main does not exist")
            /\ UNCHANGED mainRef
       ELSE /\ mainRef' = ref
            /\ pc' = "pushCreateBlob"
            /\ UNCHANGED ret
    /\ UNCHANGED <<ref, commits, files, commitMessage, attempt, currentCommit,
                   treeItems, newTree, newCommit, hist, NotGit>>

\* createBlobsForFiles(files), one blob per call
pushCreateBlob ==
    /\ pc = "pushCreateBlob"
    /\ callLog' = Append(callLog, CurrentCall)
    /\ LET file == files[Len(treeItems) + 1]
       IN treeItems' = Append(treeItems, [path |-> file.path, sha |-> file.content])
    /\ pc' = IF Len(treeItems) + 1 = Len(files) THEN "pushCreateTree" ELSE "pushCreateBlob"
    /\ UNCHANGED <<ref, commits, files, commitMessage, attempt, mainRef, currentCommit,
                   newTree, newCommit, ret, hist, NotGit>>

\* const tree = await this.createTree(treeItems): no base_tree is passed
pushCreateTree ==
    /\ pc = "pushCreateTree"
    /\ callLog' = Append(callLog, CurrentCall)
    /\ newTree' = TreeWith(treeItems, EmptyTree)
    /\ pc' = "pushCreateCommit"
    /\ UNCHANGED <<ref, commits, files, commitMessage, attempt, mainRef, currentCommit,
                   treeItems, newCommit, ret, hist, NotGit>>

\* const commit = await this.createCommit(tree.sha, commitMessage, author, [ref.object.sha])
pushCreateCommit ==
    /\ pc = "pushCreateCommit"
    /\ callLog' = Append(callLog, CurrentCall)
    /\ commits' = Append(commits,
          [tree |-> newTree, parents |-> <<mainRef>>, message |-> commitMessage,
           api |-> "git"])
    /\ newCommit' = Len(commits) + 1
    /\ pc' = "pushUpdateReference"
    /\ UNCHANGED <<ref, files, commitMessage, attempt, mainRef, currentCommit,
                   treeItems, newTree, ret, hist, NotGit>>

\* await this.updateReference(`heads/${branchName}`, commit.sha)
pushUpdateReference ==
    /\ pc = "pushUpdateReference"
    /\ callLog' = Append(callLog, CurrentCall)
    /\ IF ref # NoSha /\ (updateReferenceForce \/ IsAncestorOrEqual(ref, newCommit))
       THEN /\ ref' = newCommit
            /\ pc' = "pushed"
            /\ ret' = Returned(newCommit)
       ELSE /\ pc' = "pushFailed"
            /\ ret' = Thrown("Failed to update reference")
            /\ UNCHANGED ref
    /\ UNCHANGED <<commits, files, commitMessage, attempt, mainRef, currentCommit,
                   treeItems, newTree, newCommit, hist, NotGit>>

\* a network call of pushToExistingBranch fails
PushStepFails ==
    /\ pc \in PushBranchSteps
    /\ callLog' = Append(callLog, CurrentCall)
    /\ pc' = "pushFailed"
    /\ ret' = Thrown(pc)
    /\ UNCHANGED <<ref, commits, files, commitMessage, attempt, mainRef, currentCommit,
                   treeItems, newTree, newCommit, hist, NotGit>>

\* another writer commits one file on top of the current branch head
OtherWriter ==
    /\ hist.otherWrites < MaxOtherWrites
    /\ pc \notin {"idle", "done", "failed"}
    /\ commits' = Append(commits,
          [tree |-> TreeWith(<<[path |-> OtherPath, sha |-> ToString(hist.otherWrites)]>>,
                             TreeOf(ref)),
           parents |-> IF ref = NoSha THEN <<>> ELSE <<ref>>,
           message |-> "other writer",
           api |-> "other"])
    /\ ref' = Len(commits) + 1
    /\ hist' = [hist EXCEPT !.otherWrites = @ + 1, !.otherHeads = @ \cup {Len(commits) + 1}]
    /\ UNCHANGED <<pc, files, commitMessage, attempt, mainRef, currentCommit,
                   treeItems, newTree, newCommit, ret, callLog, NotGit>>

(***************************************************************************)
(* Validation rules                                                        *)
(***************************************************************************)
NameChars == {"a", "b", "m", "p", "y", "0", "1", "-"}

\* /^[a-z0-9-]+$/ over a name given as its sequence of characters
MatchesNamePattern(name) ==
    Len(name) > 0 /\ \A i \in 1..Len(name) : name[i] \in NameChars

authDatabase(cfg) == cfg.auth # "none" /\ cfg.database = "none"

\* faulty variant: the rule matches only when vercel is the single target
vercelExpress_OnlyTarget(cfg) ==
    cfg.framework = "express" /\ cfg.deployment = {"vercel"}

vercelExpress(cfg) ==
    cfg.framework = "express" /\ "vercel" \in cfg.deployment

trpcMonorepo(cfg) == cfg.api = "trpc" /\ cfg.framework = "express"

\* faulty variant: the rule knows the chatbot template only
aiFrameworkCompatibility_ChatbotOnly(cfg) ==
    cfg.aiTemplate = "chatbot" /\ cfg.framework = "express"

aiFrameworkCompatibility(cfg) ==
    /\ cfg.aiTemplate # "none"
    /\ cfg.aiTemplate # Undefined
    /\ cfg.framework = "express"

aiApiKey(cfg) == cfg.aiTemplate # "none" /\ cfg.aiTemplate # Undefined

supabaseAuthDb(cfg) == cfg.auth = "supabase" /\ cfg.database # "supabase"

nextjsRouterRequired(cfg) ==
    (cfg.framework = "next" \/ cfg.framework = "monorepo") /\ cfg.nextjsRouter = Undefined

projectNameRequired(cfg) ==
    Len(cfg.projectName) = 0 \/ ~MatchesNamePattern(cfg.projectName)

descriptionRequired(cfg) == Len(cfg.description) = 0

deploymentTargetRequired(cfg) == Cardinality(cfg.deployment) = 0

graphqlComplexity(cfg) == cfg.api = "graphql"

mongodbAuthCompatibility(cfg) == cfg.database = "mongodb" /\ cfg.auth = "nextauth"

dockerDeploymentRecommendation(cfg) ==
    ("ec2" \in cfg.deployment \/ "railway" \in cfg.deployment) /\ ~cfg.extras.docker

\* VALIDATION_RULES: id, severity and check of every rule
VALIDATION_RULES(cfg) ==
    <<[id |-> "auth-database", severity |-> "error", check |-> authDatabase(cfg)],
      [id |-> "vercel-express", severity |-> "error", check |-> vercelExpress(cfg)],
      [id |-> "trpc-monorepo", severity |-> "warning", check |-> trpcMonorepo(cfg)],
      [id |-> "ai-framework-compatibility", severity |-> "error",
       check |-> aiFrameworkCompatibility(cfg)],
      [id |-> "ai-api-key", severity |-> "warning", check |-> aiApiKey(cfg)],
      [id |-> "supabase-auth-db", severity |-> "warning", check |-> supabaseAuthDb(cfg)],
      [id |-> "nextjs-router-required", severity |-> "error",
       check |-> nextjsRouterRequired(cfg)],
      [id |-> "project-name-required", severity |-> "error",
       check |-> projectNameRequired(cfg)],
      [id |-> "description-required", severity |-> "error",
       check |-> descriptionRequired(cfg)],
      [id |-> "deployment-target-required", severity |-> "error",
       check |-> deploymentTargetRequired(cfg)],
      [id |-> "graphql-complexity", severity |-> "warning", check |-> graphqlComplexity(cfg)],
      [id |-> "mongodb-auth-compatibility", severity |-> "warning",
       check |-> mongodbAuthCompatibility(cfg)],
      [id |-> "docker-deployment-recommendation", severity |-> "warning",
       check |-> dockerDeploymentRecommendation(cfg)]>>

getRulesBySeverity(cfg, severity) ==
    SelectSeq(VALIDATION_RULES(cfg), LAMBDA rule : rule.severity = severity)

isFrameworkCompatibleWithAI(framework) == framework = "next" \/ framework = "monorepo"

\* validate(config): every rule is evaluated; the ids of the matching rules
\* are reported by severity
MatchingRules(cfg, severity) ==
    {getRulesBySeverity(cfg, severity)[i].id :
        i \in {j \in 1..Len(getRulesBySeverity(cfg, severity)) :
                 getRulesBySeverity(cfg, severity)[j].check}}

validateConfig(cfg) ==
    [isValid |-> MatchingRules(cfg, "error") = {},
     errors |-> MatchingRules(cfg, "error"),
     warnings |-> MatchingRules(cfg, "warning")]

\* validateForGeneration(config).canGenerate
canGenerate(cfg) == Cardinality(validateConfig(cfg).errors) = 0

ValidationNames == {<<>>, <<"m", "y", "-", "a", "p", "p">>, <<"M", "y">>}

\* configurations in the shape the rules read
ValidationConfigs ==
    [framework : LegacyFrameworks,
     nextjsRouter : {Undefined, "app"},
     auth : {"none", "nextauth", "supabase"},
     database : {"none", "supabase", "mongodb"},
     api : {"rest-fetch", "trpc", "graphql"},
     deployment : {{}, {"vercel"}, {"render"}, {"vercel", "ec2"}},
     aiTemplate : {Undefined, "none", "chatbot", "image-generator"},
     projectName : ValidationNames,
     description : {<<>>, <<"a">>},
     extras : {NoExtras, AllExtras}]

ValidGenerationConfig ==
    [framework |-> "next", nextjsRouter |-> "app", auth |-> "none",
     database |-> "none", api |-> "rest-fetch", deployment |-> {"vercel"},
     aiTemplate |-> "none", projectName |-> <<"m", "y", "-", "a", "p", "p">>,
     description |-> <<"a">>, extras |-> NoExtras]

ValidationIdle ==
    /\ vIn = ValidGenerationConfig
    /\ vOut = <<>>

ValidationInit ==
    /\ vIn \in ValidationConfigs
    /\ vOut = <<>>

Validate ==
    /\ vOut = <<>>
    /\ vOut' = <<validateConfig(vIn)>>
    /\ UNCHANGED vIn

(***************************************************************************)
(* GenerateButton                                                          *)
(***************************************************************************)
NoId == 0

\* config props the button is rendered with: valid, blocked by an error
\* rule, valid with a warning
ButtonConfigs ==
    {ValidGenerationConfig,
     [ValidGenerationConfig EXCEPT !.framework = "express"],
     [ValidGenerationConfig EXCEPT !.api = "graphql"]}

GenerateFailures == {"timeout", "server", "invalid_config", "generation_failed", "network"}

\* status of a failed repository-creation response; "thrown" is a rejected fetch
RepoFailures == {"429-reset", "429", "401", "409", "408", "503", "500", "thrown"}

ButtonInit ==
    /\ btnConfig = ValidGenerationConfig
    /\ btnIsValidating = FALSE
    /\ isGenerating = FALSE
    /\ downloadId = NoId
    /\ error = "null"
    /\ isAuthenticated = FALSE
    /\ showRepoModal = FALSE
    /\ isCreatingRepo = FALSE
    /\ repositoryUrl = FALSE
    /\ rateLimitInfo = FALSE
    /\ repoModalError = "null"
    /\ lastRepoData = FALSE
    /\ generateRequest = FALSE
    /\ repoRequest = FALSE
    /\ postLog = {}
    /\ rejected = {}

\* the branch of the render function that is shown
Screen ==
    IF repositoryUrl THEN "repository"
    ELSE IF downloadId # NoId THEN "download"
    ELSE IF isGenerating THEN "loading"
    ELSE "main"

\* the parent renders the button with new props
PropsChange ==
    /\ \E c \in ButtonConfigs, v \in BOOLEAN :
          /\ <<c, v>> # <<btnConfig, btnIsValidating>>
          /\ btnConfig' = c
          /\ btnIsValidating' = v
    /\ UNCHANGED <<isGenerating, downloadId, error, isAuthenticated, showRepoModal,
                   isCreatingRepo, repositoryUrl, rateLimitInfo, repoModalError,
                   lastRepoData, generateRequest, repoRequest, postLog, rejected>>

\* useEffect checkAuth: /api/github/auth/status answers authenticated
checkAuth ==
    /\ ~isAuthenticated
    /\ isAuthenticated' = TRUE
    /\ UNCHANGED <<btnConfig, btnIsValidating, isGenerating, downloadId, error,
                   showRepoModal, isCreatingRepo, repositoryUrl, rateLimitInfo,
                   repoModalError, lastRepoData, generateRequest, repoRequest, postLog, rejected>>

\* faulty variant: handleGenerate does not look at the validation state
handleGenerateReturnsEarly_Never(cfg) == FALSE

\* if (!validationState.canGenerate) { ...; return; }
handleGenerateReturnsEarly(cfg) == ~canGenerate(cfg)

\* handleGenerate up to the await of fetch('/api/generate'), after errorBefore
\* has been applied to error
handleGenerate(errorBefore) ==
    IF handleGenerateReturnsEarly(btnConfig)
    THEN /\ error' = errorBefore
         /\ rejected' = rejected \cup {btnConfig}
         /\ UNCHANGED <<isGenerating, downloadId, generateRequest, postLog>>
    ELSE /\ isGenerating' = TRUE
         /\ error' = "null"
         /\ downloadId' = NoId
         /\ generateRequest' = TRUE
         /\ postLog' = postLog \cup {btnConfig}
         /\ UNCHANGED rejected

\* click on the Generate Scaffold button (not disabled)
ClickGenerate ==
    /\ Screen = "main"
    /\ canGenerate(btnConfig) /\ ~isGenerating /\ ~btnIsValidating
    /\ handleGenerate(error)
    /\ UNCHANGED <<btnConfig, btnIsValidating, isAuthenticated, showRepoModal,
                   isCreatingRepo, repositoryUrl, rateLimitInfo, repoModalError,
                   lastRepoData, repoRequest>>

\* ErrorMessage onRetry: setError(null); handleGenerate()
RetryGenerate ==
    /\ Screen = "main"
    /\ error # "null"
    /\ handleGenerate("null")
    /\ UNCHANGED <<btnConfig, btnIsValidating, isAuthenticated, showRepoModal,
                   isCreatingRepo, repositoryUrl, rateLimitInfo, repoModalError,
                   lastRepoData, repoRequest>>

\* handleGenerate after the await: response.ok, or an error type
GenerateResponse ==
    /\ generateRequest
    /\ generateRequest' = FALSE
    /\ isGenerating' = FALSE
    /\ \/ downloadId' = 1 /\ UNCHANGED error
       \/ \E errorType \in GenerateFailures :
             error' = errorType /\ UNCHANGED downloadId
    /\ UNCHANGED <<btnConfig, btnIsValidating, isAuthenticated, showRepoModal,
                   isCreatingRepo, repositoryUrl, rateLimitInfo, repoModalError,
                   lastRepoData, repoRequest, postLog, rejected>>

\* DownloadButton onRetryExhausted
DownloadRetryExhausted ==
    /\ Screen = "download" /\ ~showRepoModal
    /\ error # "download_failed"
    /\ error' = "download_failed"
    /\ UNCHANGED <<btnConfig, btnIsValidating, isGenerating, downloadId, isAuthenticated,
                   showRepoModal, isCreatingRepo, repositoryUrl, rateLimitInfo,
                   repoModalError, lastRepoData, generateRequest, repoRequest, postLog, rejected>>

\* click on Create GitHub Repository
OpenRepoModal ==
    /\ Screen = "download" /\ ~showRepoModal
    /\ isAuthenticated /\ ~rateLimitInfo
    /\ showRepoModal' = TRUE
    /\ UNCHANGED <<btnConfig, btnIsValidating, isGenerating, downloadId, error,
                   isAuthenticated, isCreatingRepo, repositoryUrl, rateLimitInfo,
                   repoModalError, lastRepoData, generateRequest, repoRequest, postLog, rejected>>

\* handleRepoSubmit up to the await of fetch('/api/github/repos/create')
handleRepoSubmit ==
    /\ lastRepoData' = TRUE
    /\ repoModalError' = "null"
    /\ isCreatingRepo' = TRUE
    /\ repoRequest' = TRUE
    /\ UNCHANGED <<btnConfig, btnIsValidating, isGenerating, downloadId, error,
                   isAuthenticated, showRepoModal, repositoryUrl, rateLimitInfo,
                   generateRequest, postLog, rejected>>

\* CreateRepoModal onSubmit
SubmitRepo ==
    /\ Screen = "download" /\ showRepoModal /\ ~isCreatingRepo
    /\ handleRepoSubmit

\* CreateRepoModal onRetry
RetryRepo ==
    /\ Screen = "download" /\ showRepoModal /\ ~isCreatingRepo
    /\ repoModalError # "null"
    /\ lastRepoData
    /\ handleRepoSubmit

\* handleRepoSubmit after the await: a failed response or a rejected fetch
RepoFails ==
    /\ repoRequest
    /\ repoRequest' = FALSE
    /\ isCreatingRepo' = FALSE
    /\ \E failure \in RepoFailures :
          IF failure = "429-reset"
          THEN /\ rateLimitInfo' = TRUE
               /\ error' = "rate_limit"
               /\ showRepoModal' = FALSE
               /\ UNCHANGED repoModalError
          ELSE /\ repoModalError' = failure
               /\ UNCHANGED <<rateLimitInfo, error, showRepoModal>>
    /\ UNCHANGED <<btnConfig, btnIsValidating, isGenerating, downloadId, isAuthenticated,
                   repositoryUrl, lastRepoData, generateRequest, postLog, rejected>>

\* handleRepoSubmit after the await: success
RepoCreated ==
    /\ repoRequest
    /\ repoRequest' = FALSE
    /\ isCreatingRepo' = FALSE
    /\ showRepoModal' = FALSE
    /\ repoModalError' = "null"
    /\ lastRepoData' = FALSE
    /\ repositoryUrl' = TRUE
    /\ UNCHANGED <<btnConfig, btnIsValidating, isGenerating, downloadId, error,
                   isAuthenticated, rateLimitInfo, generateRequest, postLog, rejected>>

\* CreateRepoModal onClose
CloseRepoModal ==
    /\ Screen = "download" /\ showRepoModal
    /\ ~isCreatingRepo
    /\ showRepoModal' = FALSE
    /\ repoModalError' = "null"
    /\ lastRepoData' = FALSE
    /\ UNCHANGED <<btnConfig, btnIsValidating, isGenerating, downloadId, error,
                   isAuthenticated, isCreatingRepo, repositoryUrl, rateLimitInfo,
                   generateRequest, repoRequest, postLog, rejected>>

\* CreateRepoModal onErrorDismiss
DismissRepoError ==
    /\ Screen = "download" /\ showRepoModal
    /\ repoModalError # "null"
    /\ repoModalError' = "null"
    /\ UNCHANGED <<btnConfig, btnIsValidating, isGenerating, downloadId, error,
                   isAuthenticated, showRepoModal, isCreatingRepo, repositoryUrl,
                   rateLimitInfo, lastRepoData, generateRequest, repoRequest, postLog, rejected>>

\* the countdown effect once the reset time has passed
RateLimitExpires ==
    /\ rateLimitInfo
    /\ rateLimitInfo' = FALSE
    /\ error' = "null"
    /\ UNCHANGED <<btnConfig, btnIsValidating, isGenerating, downloadId, isAuthenticated,
                   showRepoModal, isCreatingRepo, repositoryUrl, repoModalError,
                   lastRepoData, generateRequest, repoRequest, postLog, rejected>>

\* click on Generate Another
GenerateAnother ==
    /\ Screen = "download" /\ ~showRepoModal
    /\ downloadId' = NoId
    /\ error' = "null"
    /\ UNCHANGED <<btnConfig, btnIsValidating, isGenerating, isAuthenticated,
                   showRepoModal, isCreatingRepo, repositoryUrl, rateLimitInfo,
                   repoModalError, lastRepoData, generateRequest, repoRequest, postLog, rejected>>

\* click on Create Another Repository
CreateAnotherRepository ==
    /\ Screen = "repository"
    /\ repositoryUrl' = FALSE
    /\ downloadId' = NoId
    /\ error' = "null"
    /\ UNCHANGED <<btnConfig, btnIsValidating, isGenerating, isAuthenticated,
                   showRepoModal, isCreatingRepo, rateLimitInfo, repoModalError,
                   lastRepoData, generateRequest, repoRequest, postLog, rejected>>

(***************************************************************************)
(* GitHubPushProgress                                                      *)
(***************************************************************************)
PushSteps == {"creating", "initializing", "committing", "pushing", "complete", "error"}

\* bodies of GET /api/progress/:id that the component distinguishes
ProgressResponses ==
    [status : {"in-progress", "complete", "error"},
     currentStep : {"generating-files", "creating-structure", "other"},
     progress : {50, 70, 90},
     hasError : BOOLEAN,      \* data.error
     downloadId : {NoId, 1},  \* data.downloadId
     hasUrl : BOOLEAN]        \* an event message holds the repository URL

PushInit ==
    /\ progress = "null"
    /\ currentStep = "creating"
    /\ pushRepositoryUrl = FALSE
    /\ pushDownloadId = NoId
    /\ polling = TRUE
    /\ errorMessage = "null"
    /\ onFallbackDownload \in BOOLEAN
    /\ fallbackDownloads = {}

\* setCurrentStep according to data.currentStep and data.progress
mappedStep(data, step) ==
    IF data.currentStep = "generating-files" THEN "creating"
    ELSE IF data.currentStep = "creating-structure"
    THEN IF data.progress < 60 THEN "initializing"
         ELSE IF data.progress < 80 THEN "committing"
         ELSE "pushing"
    ELSE step

\* pollProgress with a response that is ok
pollProgress ==
    /\ polling
    /\ \E data \in ProgressResponses :
          /\ progress' = "loaded"
          /\ IF data.status = "complete"
             THEN /\ polling' = FALSE
                  /\ currentStep' = "complete"
                  /\ pushRepositoryUrl' = (pushRepositoryUrl \/ data.hasUrl)
                  /\ UNCHANGED <<errorMessage, pushDownloadId>>
             ELSE IF data.status = "error"
             THEN /\ polling' = FALSE
                  /\ currentStep' = "error"
                  /\ errorMessage' = IF data.hasError THEN "data.error"
                                     ELSE "Failed to push to GitHub"
                  /\ pushDownloadId' = IF data.downloadId # NoId THEN data.downloadId
                                       ELSE pushDownloadId
                  /\ UNCHANGED pushRepositoryUrl
             ELSE /\ currentStep' = mappedStep(data, currentStep)
                  /\ UNCHANGED <<polling, errorMessage, pushDownloadId, pushRepositoryUrl>>
    /\ UNCHANGED <<onFallbackDownload, fallbackDownloads>>

\* pollProgress whose fetch fails or whose response is not ok
pollProgressFails ==
    /\ polling
    /\ polling' = FALSE
    /\ currentStep' = "error"
    /\ errorMessage' = "Failed to track push progress"
    /\ UNCHANGED <<progress, pushRepositoryUrl, pushDownloadId, onFallbackDownload,
                   fallbackDownloads>>

\* the "Download ZIP Instead" button is part of the rendered output
fallbackButtonRendered ==
    progress # "null" /\ currentStep = "error" /\ pushDownloadId # NoId

\* click on Download ZIP Instead
handleFallbackDownload ==
    /\ fallbackButtonRendered
    /\ pushDownloadId # NoId /\ onFallbackDownload
    /\ pushDownloadId \notin fallbackDownloads
    /\ fallbackDownloads' = fallbackDownloads \cup {pushDownloadId}
    /\ UNCHANGED <<progress, currentStep, pushRepositoryUrl, pushDownloadId, polling,
                   errorMessage, onFallbackDownload>>

(***************************************************************************)
(* ConfigurationWizard                                                     *)
(***************************************************************************)
\* what a render reads from the store for the closures and guards below
renderedValues(cfg) ==
    [aiTemplate |-> cfg.aiTemplate, frontendFramework |-> cfg.frontendFramework]

templateSelected(aiTemplate) == aiTemplate # "none" /\ aiTemplate # Undefined

WizardInit ==
    /\ rendered = renderedValues(defaultConfig)
    /\ aiEnabled = templateSelected(defaultConfig.aiTemplate)
    /\ renderPending = FALSE

\* { [field]: value }
OneKey(field, value) ==
    [key \in ConfigKeys |-> IF key = field THEN value ELSE Undefined]

\* handleFieldChange takes the branch that also clears the AI template; the
\* callback reads config.aiTemplate of the render that created it
clearsAiTemplate(field, value) ==
    /\ field = "frontendFramework" /\ value # "nextjs"
    /\ templateSelected(rendered.aiTemplate)

\* the argument handleFieldChange passes to updateConfig
fieldChangeUpdates(field, value) ==
    IF clearsAiTemplate(field, value)
    THEN [OneKey(field, value) EXCEPT !.aiTemplate = "none"]
    ELSE OneKey(field, value)

\* handleFieldChange(field, value): its call of updateConfig
handleFieldChange(field, value) ==
    LET updates == fieldChangeUpdates(field, value) IN
    /\ config' = updateConfigResult(config, updates)
    /\ lastKeys' = FrameworkKeys(updates)
    /\ lastChanged' = hasChanges(config, updates)

\* the call changes the store, so the wizard has to render again
changesStore(field, value) == hasChanges(config, fieldChangeUpdates(field, value))

\* the radio groups of the wizard
FieldOptions(field) ==
    CASE field = "frontendFramework" -> FrontendFrameworks
      [] field = "backendFramework" -> BackendFrameworks
      [] field = "buildTool" -> BuildTools
      [] field = "projectStructure" -> ProjectStructures

\* onChange of a radio input
ChangeField ==
    \E field \in {"frontendFramework", "backendFramework", "buildTool", "projectStructure"} :
      \E value \in FieldOptions(field) :
        /\ (field = "backendFramework" /\ value = "nextjs-api")
              => rendered.frontendFramework = "nextjs"
        /\ handleFieldChange(field, value)
        /\ renderPending' = (renderPending \/ changesStore(field, value))
        /\ aiEnabled' = IF clearsAiTemplate(field, value) THEN FALSE ELSE aiEnabled
        /\ UNCHANGED rendered

\* AITemplateCard onSelect
SelectTemplate ==
    /\ aiEnabled
    /\ rendered.frontendFramework = "nextjs"
    /\ \E template \in StoreAiTemplates \ {"none"} :
          LET newValue == IF rendered.aiTemplate = template THEN "none" ELSE template IN
          /\ handleFieldChange("aiTemplate", newValue)
          /\ renderPending' = (renderPending \/ changesStore("aiTemplate", newValue))
    /\ UNCHANGED <<rendered, aiEnabled>>

\* the wizard renders with the current store values; the effect on config
\* sets aiEnabled from the stored template
Render ==
    /\ renderPending
    /\ rendered' = renderedValues(config)
    /\ aiEnabled' = templateSelected(config.aiTemplate)
    /\ renderPending' = FALSE
    /\ UNCHANGED storeVars

\* onChange of the Enable AI Features checkbox: setAiEnabled makes the
\* component render at once, and the effect on config follows that render
\* when the store has changed
ToggleAi ==
    /\ rendered.frontendFramework = "nextjs"
    /\ IF aiEnabled
       THEN /\ handleFieldChange("aiTemplate", "none")
            /\ aiEnabled' = FALSE
       ELSE /\ aiEnabled' = IF renderPending THEN templateSelected(config.aiTemplate)
                            ELSE TRUE
            /\ UNCHANGED storeVars
    /\ rendered' = renderedValues(config')
    /\ renderPending' = FALSE

(***************************************************************************)
(* ProgressStore                                                           *)
(***************************************************************************)
GenerationSteps == {"validating", "generating-files", "creating-archive", "complete", "error"}
ProgressValues == {0, 50, 100}
ProgressErrors == {"generation failed"}
ProgressDownloadIds == {1, 2}

\* largest number of events recorded for one tracker
MaxEvents == 3

ProgressInit ==
    /\ tracker = <<>>
    /\ psOp = "none"
    /\ psThrew = FALSE

\* create(id)
create ==
    /\ tracker' = <<[status |-> "pending", currentStep |-> "validating", progress |-> 0,
                    events |-> <<>>, error |-> "undefined", downloadId |-> NoId]>>
    /\ psOp' = "create"
    /\ psThrew' = FALSE

\* faulty variant: the step 'error' is not turned into the status 'error'
statusOf_NeverError(step) ==
    IF step = "complete" THEN "complete" ELSE "in-progress"

\* the status update(…) stores for a step
statusOf(step) ==
    IF step = "complete" THEN "complete"
    ELSE IF step = "error" THEN "error"
    ELSE "in-progress"

\* faulty variant: the event list is replaced by the new event
updated_KeepsLastOnly(existing, step, percent) ==
    [existing EXCEPT !.currentStep = step,
                     !.progress = percent,
                     !.events = <<[step |-> step, progress |-> percent]>>,
                     !.status = statusOf(step)]

\* the tracker after update(id, step, message, progress)
updated(existing, step, percent) ==
    [existing EXCEPT !.currentStep = step,
                     !.progress = percent,
                     !.events = Append(existing.events, [step |-> step, progress |-> percent]),
                     !.status = statusOf(step)]

\* update(id, step, message, progress)
update ==
    /\ psOp' = "update"
    /\ IF tracker = <<>>
       THEN psThrew' = TRUE /\ UNCHANGED tracker
       ELSE /\ Len(tracker[1].events) < MaxEvents
            /\ \E step \in GenerationSteps, percent \in ProgressValues :
                  tracker' = <<updated(tracker[1], step, percent)>>
            /\ psThrew' = FALSE

\* setError(id, error)
setError ==
    /\ psOp' = "setError"
    /\ IF tracker = <<>>
       THEN psThrew' = TRUE /\ UNCHANGED tracker
       ELSE /\ \E message \in ProgressErrors :
                  tracker' = <<[tracker[1] EXCEPT !.status = "error",
                                                  !.currentStep = "error",
                                                  !.error = message]>>
            /\ psThrew' = FALSE

\* setDownloadId(id, downloadId)
setDownloadId ==
    /\ psOp' = "setDownloadId"
    /\ IF tracker = <<>>
       THEN psThrew' = TRUE /\ UNCHANGED tracker
       ELSE /\ \E id \in ProgressDownloadIds :
                  tracker' = <<[tracker[1] EXCEPT !.downloadId = id]>>
            /\ psThrew' = FALSE

\* delete(id), also run by the cleanup timer
delete ==
    /\ tracker # <<>>
    /\ tracker' = <<>>
    /\ psOp' = "delete"
    /\ psThrew' = FALSE

(***************************************************************************)
(* useValidation                                                           *)
(***************************************************************************)
MAX_CACHE_SIZE == 50

\* largest number of validations waiting for an idle callback
MaxIdle == 2

\* the configurations the page hands to the hook
HookConfigs ==
    {[ValidGenerationConfig EXCEPT !.projectName = name, !.framework = fw] :
        name \in {<<>>, <<"m", "y", "-", "a", "p", "p">>},
        fw \in {"next", "express"}}

\* JSON.stringify of the relevant fields
getCacheKey(cfg) ==
    [framework |-> cfg.framework, auth |-> cfg.auth, database |-> cfg.database,
     api |-> cfg.api, deployment |-> cfg.deployment, aiTemplate |-> cfg.aiTemplate]

HookInit ==
    /\ hookConfig = [ValidGenerationConfig EXCEPT !.projectName = <<>>]
    /\ validationResult = [isValid |-> TRUE, errors |-> {}, warnings |-> {}]
    /\ isValidating = FALSE
    /\ timerPending = TRUE
    /\ lastCacheKey = <<>>
    /\ validationCache = <<>>
    /\ idleQueue = <<>>

\* validationCache.get(key): <<>> when absent
cacheGet(key) ==
    LET hits == {i \in 1..Len(validationCache) : validationCache[i].key = key}
    IN IF hits = {} THEN <<>> ELSE <<validationCache[CHOOSE i \in hits : TRUE].result>>

\* validationCache.set(key, result) followed by the size limit
cacheSet(key, result) ==
    LET hits == {i \in 1..Len(validationCache) : validationCache[i].key = key}
        stored == IF hits = {}
                  THEN Append(validationCache, [key |-> key, result |-> result])
                  ELSE [i \in 1..Len(validationCache) |->
                           IF i \in hits THEN [key |-> key, result |-> result]
                           ELSE validationCache[i]]
    IN IF Len(stored) > MAX_CACHE_SIZE THEN Tail(stored) ELSE stored

\* the page renders the hook with another configuration; the effect resets
\* the debounce timeout
ConfigChanges ==
    /\ \E c \in HookConfigs : c # hookConfig /\ hookConfig' = c
    /\ timerPending' = TRUE
    /\ UNCHANGED <<validationResult, isValidating, lastCacheKey, validationCache, idleQueue>>

\* the timeout fires: runValidation(config) up to requestIdleCallback
runValidation ==
    /\ timerPending
    /\ timerPending' = FALSE
    /\ LET cacheKey == getCacheKey(hookConfig) IN
       IF lastCacheKey = <<cacheKey>>
       THEN UNCHANGED <<validationResult, isValidating, lastCacheKey, idleQueue>>
       ELSE /\ lastCacheKey' = <<cacheKey>>
            /\ IF cacheGet(cacheKey) # <<>>
               THEN /\ validationResult' = cacheGet(cacheKey)[1]
                    /\ UNCHANGED <<isValidating, idleQueue>>
               ELSE /\ Len(idleQueue) < MaxIdle
                    /\ isValidating' = TRUE
                    /\ idleQueue' = Append(idleQueue, hookConfig)
                    /\ UNCHANGED validationResult
    /\ UNCHANGED <<hookConfig, validationCache>>

\* the idle callback of runValidation
idleCallback ==
    /\ idleQueue # <<>>
    /\ LET configToValidate == Head(idleQueue)
           result == validateConfig(configToValidate)
       IN /\ validationCache' = cacheSet(getCacheKey(configToValidate), result)
          /\ validationResult' = result
    /\ isValidating' = FALSE
    /\ idleQueue' = Tail(idleQueue)
    /\ UNCHANGED <<hookConfig, timerPending, lastCacheKey>>

\* ---------------------------------------------------------------------
\* CreateRepoModal: the repository name input, its debounced availability
\* check and the submit button. isLoading is false and the error prop is
\* null (their defaults), so onErrorDismiss is not called; initialName is ''.

ModalNull == "null"
ModalNames == {"", "app", "app2"}
MaxChecks == 2

CheckFailed == "Failed to check availability"
NameTaken == "This repository name is already taken"
NameRequired == "Repository name is required"
ServerErrors == {CheckFailed, "Rate limit exceeded"}

ModalInit ==
    /\ nameInput = ""
    /\ nameError = ""
    /\ isCheckingAvailability = FALSE
    /\ availabilityResult = ModalNull
    /\ availabilityTimer = <<>>
    /\ availabilityRequests = <<>>
    /\ resultFor = ModalNull
    /\ submittedNames = {}
    /\ isOpen = TRUE

\* !name || name.trim().length === 0
isBlank(n) == n = ""

\* disabled={isLoading || !!nameError || !name || !availabilityResult?.available}
submitDisabled ==
    nameError # "" \/ nameInput = "" \/ availabilityResult # "available"

\* the effect on [name]: the previous timeout is cleared; an empty name
\* resets the result and the error, any other name sets a new timeout and
\* leaves both as they were
nameEffect(n) ==
    IF isBlank(n)
    THEN /\ availabilityResult' = ModalNull
         /\ resultFor' = ModalNull
         /\ nameError' = ""
         /\ availabilityTimer' = <<>>
    ELSE /\ availabilityTimer' = <<n>>
         /\ UNCHANGED <<availabilityResult, resultFor, nameError>>

\* typing in the input, or clicking a suggestion: setName, then the effect
handleNameChange ==
    \E n \in ModalNames :
        /\ isOpen
        /\ n # nameInput
        /\ nameInput' = n
        /\ nameEffect(n)
        /\ UNCHANGED <<isCheckingAvailability, availabilityRequests, submittedNames, isOpen>>

\* the timeout fires: checkAvailability(name) up to its await fetch(...)
checkAvailability ==
    /\ availabilityTimer # <<>>
    /\ Len(availabilityRequests) < MaxChecks
    /\ availabilityTimer' = <<>>
    /\ isCheckingAvailability' = TRUE
    /\ nameError' = ""
    /\ availabilityRequests' = Append(availabilityRequests, availabilityTimer[1])
    /\ UNCHANGED <<nameInput, availabilityResult, resultFor, submittedNames, isOpen>>

WithoutRequest(i) ==
    [j \in 1..(Len(availabilityRequests) - 1) |->
        IF j < i THEN availabilityRequests[j] ELSE availabilityRequests[j + 1]]

\* a response arrives, in any order: the rest of checkAvailability
availabilityResponse ==
    \E i \in 1..Len(availabilityRequests) :
        /\ availabilityRequests' = WithoutRequest(i)
        /\ isCheckingAvailability' = FALSE
        /\ \/ /\ availabilityResult' = "available"
              /\ resultFor' = availabilityRequests[i]
              /\ UNCHANGED nameError
           \/ /\ availabilityResult' = "taken"
              /\ resultFor' = availabilityRequests[i]
              /\ nameError' = NameTaken
           \/ /\ availabilityResult' = ModalNull
              /\ resultFor' = ModalNull
              /\ nameError' \in ServerErrors
        /\ UNCHANGED <<nameInput, availabilityTimer, submittedNames, isOpen>>

\* the Create button is clicked: it must be enabled
handleSubmit ==
    /\ isOpen
    /\ ~submitDisabled
    /\ IF isBlank(nameInput)
       THEN nameError' = NameRequired /\ UNCHANGED submittedNames
       ELSE IF nameError # ""
       THEN UNCHANGED <<nameError, submittedNames>>
       ELSE submittedNames' = submittedNames \cup {nameInput} /\ UNCHANGED nameError
    /\ UNCHANGED <<nameInput, isCheckingAvailability, availabilityResult,
                   availabilityTimer, availabilityRequests, resultFor, isOpen>>

\* the close button: the state is reset (setName('') runs the effect) and
\* onClose makes the parent pass isOpen = false; the component stays mounted
handleClose ==
    /\ isOpen
    /\ isOpen' = FALSE
    /\ nameInput' = ""
    /\ nameError' = ""
    /\ availabilityResult' = ModalNull
    /\ resultFor' = ModalNull
    /\ availabilityTimer' = <<>>
    /\ UNCHANGED <<isCheckingAvailability, availabilityRequests, submittedNames>>

\* the parent opens the modal: the effect on [isOpen, initialName,
\* initialDescription] sets the name to initialName; the name was '' since
\* handleClose, so the effect on [name] does not run again
openModal ==
    /\ ~isOpen
    /\ isOpen' = TRUE
    /\ nameInput' = ""
    /\ UNCHANGED <<nameError, isCheckingAvailability, availabilityResult,
                   availabilityTimer, availabilityRequests, resultFor, submittedNames>>

UiIdle == ValidationIdle /\ ButtonInit /\ PushInit /\ onFallbackDownload /\ WizardInit /\ ProgressInit /\ HookInit /\ ModalInit

(***************************************************************************)
(* Specifications                                                          *)
(***************************************************************************)
DeriveIdle ==
    /\ dIn = <<"nextjs", "nextjs-api", "nextjs-only">>
    /\ dOut = <<>>

\* the publishing pipeline as the only writer of the repository
Init == StoreInit /\ DeriveIdle /\ GenIdle /\ GitIdle /\ UiIdle
Pipeline ==
    \/ Invoke
    \/ Retry
    \/ createFileViaContentsAPI
    \/ getReference
    \/ getCommit
    \/ createBlob
    \/ createTree
    \/ createCommit
    \/ updateReference
    \/ getReferenceSingle
    \/ StepFails
Next == Pipeline
Spec == Init /\ [][Next]_vars

\* the publishing pipeline with another writer on the same branch
\* the pipeline on a network whose calls may stay unanswered; a continuation
\* whose call has settled is always run
NextLive == Pipeline \/ NoResponse
SpecLive == Init /\ [][NextLive]_vars /\ WF_vars(Pipeline)

NextConc == Pipeline \/ OtherWriter
SpecConc == Init /\ [][NextConc]_vars

\* the configuration store
NextStore ==
    \/ updateConfig /\ UNCHANGED <<deriveVars, genVars, gitVars, uiVars>>
    \/ resetConfig /\ UNCHANGED <<deriveVars, genVars, gitVars, uiVars>>
SpecStore == Init /\ [][NextStore]_vars

\* autoAdjustProjectStructure over all its inputs
InitDerive == StoreInit /\ DeriveInit /\ GenIdle /\ GitIdle /\ UiIdle
NextDerive == Derive /\ UNCHANGED <<storeVars, genVars, gitVars, uiVars>>
SpecDerive == InitDerive /\ [][NextDerive]_vars

\* one generation in a fresh process, over all configurations
InitPaths == StoreInit /\ DeriveIdle /\ PathsInit /\ GitIdle /\ UiIdle
NextPaths == Generate /\ UNCHANGED <<storeVars, deriveVars, gitVars, uiVars>>
SpecPaths == InitPaths /\ [][NextPaths]_vars

\* the documents of one generation in a fresh process, over the AI selections
InitDocs == StoreInit /\ DeriveIdle /\ DocsInit /\ GitIdle /\ UiIdle
NextDocs == Generate /\ UNCHANGED <<storeVars, deriveVars, gitVars, uiVars>>
SpecDocs == InitDocs /\ [][NextDocs]_vars

\* the validation rules over all configurations
InitValidate ==
    StoreInit /\ DeriveIdle /\ GenIdle /\ GitIdle /\ ValidationInit /\ ButtonInit
    /\ PushInit /\ onFallbackDownload /\ WizardInit /\ ProgressInit /\ HookInit /\ ModalInit
NextValidate == Validate /\ UNCHANGED <<storeVars, deriveVars, genVars, gitVars, btnVars, pushVars, wizVars, progVars, hookVars, modalVars>>
SpecValidate == InitValidate /\ [][NextValidate]_vars

\* the GenerateButton component
NotButton == <<storeVars, deriveVars, genVars, gitVars, valVars, pushVars, wizVars, progVars, hookVars, modalVars>>
NextButton ==
    \/ PropsChange /\ UNCHANGED NotButton
    \/ checkAuth /\ UNCHANGED NotButton
    \/ ClickGenerate /\ UNCHANGED NotButton
    \/ RetryGenerate /\ UNCHANGED NotButton
    \/ GenerateResponse /\ UNCHANGED NotButton
    \/ DownloadRetryExhausted /\ UNCHANGED NotButton
    \/ OpenRepoModal /\ UNCHANGED NotButton
    \/ SubmitRepo /\ UNCHANGED NotButton
    \/ RetryRepo /\ UNCHANGED NotButton
    \/ RepoFails /\ UNCHANGED NotButton
    \/ RepoCreated /\ UNCHANGED NotButton
    \/ CloseRepoModal /\ UNCHANGED NotButton
    \/ DismissRepoError /\ UNCHANGED NotButton
    \/ RateLimitExpires /\ UNCHANGED NotButton
    \/ GenerateAnother /\ UNCHANGED NotButton
    \/ CreateAnotherRepository /\ UNCHANGED NotButton
SpecButton == Init /\ [][NextButton]_vars

\* the remote-publish UI: GitHubPushProgress next to the GenerateButton
NotPush == <<storeVars, deriveVars, genVars, gitVars, valVars, btnVars, wizVars, progVars, hookVars, modalVars>>
InitPublishUI ==
    StoreInit /\ DeriveIdle /\ GenIdle /\ GitIdle /\ ValidationIdle /\ ButtonInit /\ PushInit
    /\ WizardInit /\ ProgressInit /\ HookInit /\ ModalInit
NextPublishUI ==
    \/ pollProgress /\ UNCHANGED NotPush
    \/ pollProgressFails /\ UNCHANGED NotPush
    \/ handleFallbackDownload /\ UNCHANGED NotPush
    \/ NextButton
SpecPublishUI == InitPublishUI /\ [][NextPublishUI]_vars

\* the ConfigurationWizard over the configuration store
NotWizard == <<deriveVars, genVars, gitVars, valVars, btnVars, pushVars, progVars, hookVars, modalVars>>
NextWizard ==
    \/ ChangeField /\ UNCHANGED NotWizard
    \/ SelectTemplate /\ UNCHANGED NotWizard
    \/ ToggleAi /\ UNCHANGED NotWizard
    \/ Render /\ UNCHANGED NotWizard
SpecWizard == Init /\ [][NextWizard]_vars

\* the progress store with one tracker id
NotProgress == <<storeVars, deriveVars, genVars, gitVars, valVars, btnVars, pushVars, wizVars, hookVars, modalVars>>
NextProgress ==
    \/ create /\ UNCHANGED NotProgress
    \/ update /\ UNCHANGED NotProgress
    \/ setError /\ UNCHANGED NotProgress
    \/ setDownloadId /\ UNCHANGED NotProgress
    \/ delete /\ UNCHANGED NotProgress
SpecProgress == Init /\ [][NextProgress]_vars

\* createInitialCommit followed by pushToExistingBranch on the same repository
PushToExistingBranch ==
    \/ InvokePush
    \/ pushGetReference
    \/ pushCreateBlob
    \/ pushCreateTree
    \/ pushCreateCommit
    \/ pushUpdateReference
    \/ PushStepFails
NextPushBranch == Pipeline \/ PushToExistingBranch
SpecPushBranch == Init /\ [][NextPushBranch]_vars

\* the useValidation hook
NotHook == <<storeVars, deriveVars, genVars, gitVars, valVars, btnVars, pushVars, wizVars, progVars, modalVars>>
NextHook ==
    \/ ConfigChanges /\ UNCHANGED NotHook
    \/ runValidation /\ UNCHANGED NotHook
    \/ idleCallback /\ UNCHANGED NotHook
SpecHook == Init /\ [][NextHook]_vars

\* the CreateRepoModal
NotModal == <<storeVars, deriveVars, genVars, gitVars, valVars, btnVars, pushVars, wizVars, progVars, hookVars>>
NextModal ==
    \/ handleNameChange /\ UNCHANGED NotModal
    \/ checkAvailability /\ UNCHANGED NotModal
    \/ availabilityResponse /\ UNCHANGED NotModal
    \/ handleSubmit /\ UNCHANGED NotModal
    \/ handleClose /\ UNCHANGED NotModal
    \/ openModal /\ UNCHANGED NotModal
SpecModal == Init /\ [][NextModal]_vars

\* several generations in one process sharing the TemplateCache
NextCache ==
    \/ Request /\ UNCHANGED <<storeVars, deriveVars, gitVars, uiVars>>
    \/ Generate /\ UNCHANGED <<storeVars, deriveVars, gitVars, uiVars>>
SpecCache == Init /\ [][NextCache]_vars

(***************************************************************************)
(* Properties                                                              *)
(***************************************************************************)
CountCalls(kind) == Cardinality({i \in 1..Len(callLog) : callLog[i][1] = kind})

\* the first three rows of the precedence table
TableRow(frontendFramework, backendFramework) ==
    \/ frontendFramework = "nextjs" /\ backendFramework = "nextjs-api"
    \/ frontendFramework # "nextjs" /\ backendFramework = "none"
    \/ frontendFramework = "nextjs" /\ backendFramework \in {"express", "fastify", "nestjs"}

PrecedenceTable(frontendFramework, backendFramework) ==
    IF frontendFramework = "nextjs" /\ backendFramework = "nextjs-api" THEN "nextjs-only"
    ELSE IF frontendFramework # "nextjs" /\ backendFramework = "none" THEN "react-spa"
    ELSE "fullstack-monorepo"

\* C1: the file list returned by generate contains no two entries with the
\* same path, for every configuration.
C1_PathsUnique == genPc = "done" => NoDuplicates(Paths(genFiles))

\* C2: with two or more files and no other writer, once the bootstrap
\* content-write has succeeded heads/main points at the bootstrap commit in
\* every state before the final updateReference succeeds, also after a failed
\* step; the branch head never has a partially built tree.
C2_RefStaysAtBootstrap ==
    /\ (Len(files) >= 2 /\ hist.firstBootstrap # NoSha /\ pc # "done")
          => ref = hist.firstBootstrap
    /\ (Len(files) >= 2 /\ ref # NoSha)
          => DOMAIN commits[ref].tree \in
                {{files[1].path}, {files[i].path : i \in 1..Len(files)}}

C2_Witness ==
    /\ Len(files) >= 2
    /\ pc = "failed"
    /\ hist.failKind = "fault"
    /\ hist.bootstrap # NoSha
    /\ Len(treeItems) >= 1
    /\ ref = hist.bootstrap

\* C3: after an attempt that failed once Bootstrapped was reached, re-invoking
\* createInitialCommit with the same files succeeds unless a network call
\* fails again, and the final commit's parent is the first bootstrap commit.
C3_RetrySucceeds ==
    (attempt >= 2 /\ hist.firstBootstrap # NoSha /\ pc \in {"done", "failed"}
        /\ hist.failKind # "fault")
    => (pc = "done" /\ ~ret.threw /\ ret.sha # NoSha
          /\ commits[ret.sha].parents = <<hist.firstBootstrap>>)

\* C4: after a successful createInitialCommit with n >= 2 files the branch
\* head is one new commit whose only parent is the bootstrap commit and whose
\* tree holds every file of the set at its path; one tree and one commit were
\* created through the Git data API.
C4_SingleAtomicCommit ==
    (pc = "done" /\ Len(files) >= 2) =>
        /\ ~ret.threw
        /\ ret.sha = ref
        /\ commits[ref].api = "git"
        /\ commits[ref].parents = <<hist.bootstrap>>
        /\ commits[hist.bootstrap].api = "contents"
        /\ DOMAIN commits[ref].tree = {files[i].path : i \in 1..Len(files)}
        /\ \A i \in 1..Len(files) : commits[ref].tree[files[i].path] = files[i].content
        /\ CountCalls("createTree") = 1
        /\ CountCalls("createCommit") = 1
        /\ Cardinality({c \in 1..Len(commits) : commits[c].api = "git"}) = 1

C4_Witness == pc = "done" /\ Len(files) = 3 /\ ref = 2

\* C5: with another writer on heads/main, the pipeline's reference update
\* either moves the reference to a commit whose parent is the reference's
\* value at that moment or is rejected and leaves it unchanged; every commit
\* the other writer put on the branch stays in the history of the head.
C5_UpdateIsCompareAndSwap ==
    /\ [][(pc = "updateReference" /\ pc' # pc) =>
            \/ ref' = newCommit /\ commits[newCommit].parents = <<ref>> /\ pc' = "done"
            \/ ref' = ref /\ pc' = "failed"]_vars
    /\ [](\A h \in hist.otherHeads : IsAncestorOrEqual(h, ref))

C5_Witness ==
    /\ pc = "failed"
    /\ hist.failKind = "rejected"
    /\ newCommit # NoSha
    /\ ref \in hist.otherHeads
    /\ commits[newCommit].parents # <<ref>>

\* C6: with exactly one file only the bootstrap content-write changes the
\* repository: no blob, tree, commit or reference-update call is issued and
\* the returned sha is the bootstrap commit, which is the branch head.
C6_SingleFile ==
    (pc = "done" /\ Len(files) = 1) =>
        /\ ~ret.threw
        /\ ret.sha = hist.bootstrap
        /\ ref = hist.bootstrap
        /\ Len(commits) = 1
        /\ CountCalls("createFileViaContentsAPI") = 1
        /\ \A kind \in {"createBlob", "createTree", "createCommit", "updateReference"} :
              CountCalls(kind) = 0

C6_Witness == pc = "done" /\ Len(files) = 1 /\ ref = 1

\* C7: within one invocation no network call is issued twice; a failed step
\* makes the operation throw with the prefix 'Failed to create initial
\* commit: ', the failed call is the last one issued, and no call follows it.
C7_NoInternalRetry ==
    /\ [](NoDuplicates(callLog))
    /\ [](pc = "failed" =>
            /\ ret.threw
            /\ ret.prefix = "Failed to create initial commit: "
            /\ (hist.failKind = "fault" => callLog[Len(callLog)][1] = ret.message))
    /\ [][pc = "failed" => (callLog' = callLog \/ attempt' = attempt + 1)]_vars

C7_Witness ==
    /\ pc = "failed"
    /\ hist.failKind = "fault"
    /\ ret.message = "createTree"
    /\ Len(callLog) >= 5

\* C8 (as claimed): the derived structure is the same whatever the previous
\* structure was, and deriving again returns the same structure.
C8_FunctionOfPair ==
    /\ dOut # <<>> =>
          \A s \in ProjectStructures :
              autoAdjustProjectStructure(dIn[1], dIn[2], s) = dOut[1]
    /\ Len(dOut) >= 2 => dOut[2] = dOut[1]

\* C8 (amended): for the pairs of the first three table rows the derived
\* structure is the table's value whatever the previous structure was; for
\* every input, deriving again from the derived result returns the same
\* structure.
C8_TableRowsAndIdempotent ==
    /\ (dOut # <<>> /\ TableRow(dIn[1], dIn[2])) =>
          dOut[1] = PrecedenceTable(dIn[1], dIn[2])
    /\ \A i \in 2..Len(dOut) : dOut[i] = dOut[1]

C8_Witness ==
    /\ Len(dOut) = 2
    /\ dIn = <<"react", "express", "nextjs-only">>
    /\ dOut[2] = "express-api-only"

\* C9 (as claimed): in every reachable state of the store the stored
\* projectStructure agrees with the precedence table for the stored pair.
C9_StructureAlwaysAgrees ==
    TableRow(config.frontendFramework, config.backendFramework) =>
        config.projectStructure =
            PrecedenceTable(config.frontendFramework, config.backendFramework)

\* C9 (amended): right after an updateConfig call that changes a value and
\* carries frontendFramework or backendFramework, the stored projectStructure
\* agrees with the precedence table for the stored pair.
C9_AgreesAfterFrameworkUpdate ==
    (/\ lastChanged
     /\ lastKeys # {}
     /\ TableRow(config.frontendFramework, config.backendFramework))
    => config.projectStructure =
          PrecedenceTable(config.frontendFramework, config.backendFramework)

C9_Witness ==
    /\ lastChanged
    /\ lastKeys = {"backendFramework"}
    /\ config.backendFramework = "express"
    /\ config.frontendFramework = "nextjs"
    /\ config.projectStructure = "fullstack-monorepo"

\* C10: a non-GitHub generate returns for configuration c the files a fresh
\* process returns for c, whatever was generated earlier in the process.
C10_IndependentOfEarlierRuns ==
    (genPc = "done" /\ ~genGitHub) =>
        genFiles = generateFiles(genConfig, FALSE, EmptyCache)

PathSet(fs) == {fs[i].path : i \in 1..Len(fs)}
BasePaths == {"src", "apps/web/src"}

\* the API route and the page of an AI template
AiPaths(base, aiTemplate) ==
    IF aiTemplate = "chatbot"
    THEN {base \o "/app/api/chat/route.ts", base \o "/app/chat/page.tsx"}
    ELSE IF aiTemplate = "document-analyzer"
    THEN {base \o "/app/api/analyze/route.ts", base \o "/app/analyze/page.tsx"}
    ELSE IF aiTemplate = "semantic-search"
    THEN {base \o "/app/api/search/route.ts", base \o "/app/search/page.tsx"}
    ELSE IF aiTemplate = "code-assistant"
    THEN {base \o "/app/api/code-assistant/route.ts", base \o "/app/code-assistant/page.tsx"}
    ELSE IF aiTemplate = "image-generator"
    THEN {base \o "/app/api/generate-image/route.ts", base \o "/app/generate-image/page.tsx"}
    ELSE {}
AllAiPaths == UNION {AiPaths(b, t) : b \in BasePaths, t \in AiTemplates}

AiFilesExpected(cfg) ==
    /\ cfg.aiTemplate # Undefined /\ cfg.aiTemplate # "none"
    /\ cfg.projectStructure \notin {"express-api-only", "react-spa"}

\* C11: the generated file set holds the API route and the page of the
\* selected AI template exactly when aiTemplate is set and not 'none' and
\* the structure is neither express-api-only nor react-spa; otherwise it
\* holds no AI template file at all.
C11_AiFilesIff ==
    genPc = "done" =>
        PathSet(genFiles) \cap AllAiPaths =
            IF AiFilesExpected(genConfig)
            THEN AiPaths(basePath(genConfig), genConfig.aiTemplate)
            ELSE {}

C11_Witness ==
    /\ genPc = "done"
    /\ genConfig.aiTemplate = "semantic-search"
    /\ genConfig.projectStructure = "fullstack-monorepo"
    /\ "apps/web/src/app/api/search/route.ts" \in PathSet(genFiles)
    /\ "apps/web/src/app/search/page.tsx" \in PathSet(genFiles)

\* the integration files of an auth provider
AuthProviderPaths(base, auth) ==
    IF auth = "nextauth"
    THEN {base \o "/lib/auth.ts", base \o "/app/api/auth/[...nextauth]/route.ts",
          "middleware.ts", base \o "/components/auth-provider.tsx",
          base \o "/app/auth/signin/page.tsx", base \o "/app/auth/error/page.tsx"}
    ELSE IF auth = "supabase"
    THEN {base \o "/lib/supabase-client.ts", base \o "/lib/supabase-server.ts",
          base \o "/lib/auth-helpers.ts", "supabase/migrations/001_initial_schema.sql"}
    ELSE IF auth = "clerk"
    THEN {"middleware.ts", base \o "/components/clerk-user-button.tsx",
          base \o "/app/sign-in/[[...sign-in]]/page.tsx",
          base \o "/app/sign-up/[[...sign-up]]/page.tsx"}
    ELSE {}

\* the sign-in, sign-up and forgot-password template pages
AuthPagePaths(base) ==
    {base \o "/app/signin/page.tsx", base \o "/app/signup/page.tsx",
     base \o "/app/forgot-password/page.tsx"}

AllAuthPaths ==
    UNION {AuthProviderPaths(b, a) \cup AuthPagePaths(b) : b \in BasePaths, a \in AuthOptions}

AuthFilesExpected(cfg) ==
    cfg.auth # "none" /\ cfg.projectStructure # "express-api-only"

\* the Supabase client files are shared with the database integration, which
\* emits them itself when auth is not supabase
DatabasePaths(cfg) == When(cfg.database # "none", generateDatabaseFiles(cfg))

\* C12: the integration files of the selected auth provider and the sign-in,
\* sign-up and forgot-password template pages are all emitted when auth is
\* not 'none' and the structure is not express-api-only, and otherwise no
\* auth file is emitted (files of the database integration aside).
C12_AuthFilesIff ==
    genPc = "done" =>
        IF AuthFilesExpected(genConfig)
        THEN /\ AuthProviderPaths(basePath(genConfig), genConfig.auth) \subseteq PathSet(genFiles)
             /\ AuthPagePaths(basePath(genConfig)) \subseteq PathSet(genFiles)
        ELSE (PathSet(genFiles) \cap AllAuthPaths)
                 \subseteq PathSet(DatabasePaths(genConfig))

C12_Witness ==
    /\ genPc = "done"
    /\ genConfig.auth = "clerk"
    /\ genConfig.projectStructure = "nextjs-only"
    /\ "src/app/sign-in/[[...sign-in]]/page.tsx" \in PathSet(genFiles)
    /\ "src/app/forgot-password/page.tsx" \in PathSet(genFiles)

\* auth selected for an express-api-only project: nothing of it is emitted
C12_WitnessSkipped ==
    /\ genPc = "done"
    /\ genConfig.auth = "nextauth"
    /\ genConfig.projectStructure = "express-api-only"
    /\ "middleware.ts" \notin PathSet(genFiles)

FileContent(fs, path) == fs[CHOOSE i \in 1..Len(fs) : fs[i].path = path].content

\* the paths under "Generated Files" of a SETUP document
ListedFiles(setup) ==
    {setup.ai[1].generatedFiles[i] : i \in 1..Len(setup.ai[1].generatedFiles)}

\* C13: for every AI template, under nextjs-only and fullstack-monorepo, the
\* paths listed under "Generated Files" in SETUP.md are exactly the paths
\* generateAITemplateFiles emits for the configuration.
C13_SetupListsEmittedPaths ==
    (/\ genPc = "done"
     /\ hasAI(genConfig)
     /\ genConfig.projectStructure \in {"nextjs-only", "fullstack-monorepo"})
    => ListedFiles(FileContent(genFiles, "SETUP.md"))
         = PathSet(generateAITemplateFiles(genConfig))

\* the provider metadata the documents are expected to show
ExpectedProvider(provider) ==
    CASE provider = "anthropic" ->
            [name |-> "Anthropic Claude", envVar |-> "ANTHROPIC_API_KEY",
             url |-> "https://console.anthropic.com/"]
      [] provider = "openai" ->
            [name |-> "OpenAI", envVar |-> "OPENAI_API_KEY",
             url |-> "https://platform.openai.com/"]
      [] provider = "aws-bedrock" ->
            [name |-> "AWS Bedrock", envVar |-> "AWS_BEDROCK_CREDENTIALS",
             url |-> "https://aws.amazon.com/bedrock/"]
      [] provider = "gemini" ->
            [name |-> "Google Gemini", envVar |-> "GEMINI_API_KEY",
             url |-> "https://ai.google.dev/"]

SectionHeaders == {"# Application", "# Database", "# Authentication",
                   "# AI Integration", "# Redis"}

\* line appears in the section opened by header
UnderHeader(lines, header, line) ==
    \E i, j \in 1..Len(lines) :
        /\ i < j
        /\ lines[i] = header
        /\ lines[j] = line
        /\ \A k \in (i+1)..j : lines[k] \notin SectionHeaders

\* C16: with an AI template selected, .env.example holds
\* '<env var of the provider>=your-api-key-here' under '# AI Integration'
\* and the AI section of SETUP.md names the provider's display name and
\* setup URL, for each of the four providers; no provider means anthropic.
C16_ProviderMetadata ==
    (genPc = "done" /\ hasAI(genConfig)) =>
        LET provider == IF genConfig.aiProvider = Undefined THEN "anthropic"
                        ELSE genConfig.aiProvider
            expected == ExpectedProvider(provider)
            setup == FileContent(genFiles, "SETUP.md").ai
        IN  /\ UnderHeader(FileContent(genFiles, ".env.example"), "# AI Integration",
                           expected.envVar \o "=your-api-key-here")
            /\ Len(setup) = 1
            /\ setup[1].displayName = expected.name
            /\ setup[1].setupUrl = expected.url

C16_Witness ==
    /\ genPc = "done"
    /\ genConfig.aiTemplate = "chatbot"
    /\ genConfig.aiProvider = "openai"
    /\ genConfig.extras.redis
    /\ UnderHeader(FileContent(genFiles, ".env.example"), "# AI Integration",
                   "OPENAI_API_KEY=your-api-key-here")

\* an unset provider
C16_WitnessDefault ==
    /\ genPc = "done"
    /\ genConfig.aiTemplate = "image-generator"
    /\ genConfig.aiProvider = Undefined
    /\ FileContent(genFiles, "SETUP.md").ai[1].displayName = "Anthropic Claude"

C18_NoRequestWhenBlocked ==
    /\ [](\A cfg \in postLog : canGenerate(cfg))
    /\ [][(postLog' # postLog \/ (generateRequest' /\ ~generateRequest)
              \/ (isGenerating' /\ ~isGenerating))
          => (canGenerate(btnConfig) /\ postLog' = postLog \cup {btnConfig})]_vars

\* the retry of the error panel pressed while the configuration is blocked:
\* handleGenerate returned early and nothing was sent for that configuration
C18_Witness ==
    /\ ~canGenerate(btnConfig)
    /\ btnConfig \in rejected
    /\ btnConfig \notin postLog
    /\ postLog # {}
    /\ ~isGenerating /\ ~generateRequest

\* the packaged-archive download is part of what GenerateButton shows: the
\* download screen holds the DownloadButton, under the repository modal when
\* that is open
archiveDownloadShown == Screen = "download" /\ downloadId # NoId

\* C17: in every error state of the remote-publish UI an action that leads
\* to the packaged-archive download is available: GitHubPushProgress in its
\* error step renders the "Download ZIP Instead" button, and GenerateButton
\* after a failed repository creation still shows the download of the archive.
C17_DownloadOfferedOnError ==
    /\ currentStep = "error" => fallbackButtonRendered
    /\ (repoModalError # "null" \/ error = "rate_limit") => archiveDownloadShown

\* C19: after any sequence of wizard field changes from the default
\* configuration, the stored configuration never has an AI template other
\* than 'none' together with a frontend framework other than nextjs.
C19_NoTemplateWithoutNextJs ==
    templateSelected(config.aiTemplate) => config.frontendFramework = "nextjs"

\* C20: every invocation of createInitialCommit eventually terminates,
\* returning a commit identifier or throwing, even when a network call never
\* receives a response.
C20_InvocationTerminates ==
    (pc \in NetworkSteps) ~> (pc \in {"done", "failed"})

\* where the dashboard template page of a configuration belongs
DashboardPath(cfg) ==
    IF cfg.projectStructure = "fullstack-monorepo"
    THEN "apps/web/src/app/dashboard/page.tsx"
    ELSE "src/app/dashboard/page.tsx"

\* C21 as stated: for every configuration the generated file set contains
\* the dashboard template page, whatever the project structure and auth.
C21_DashboardAlways ==
    genPc = "done" => DashboardPath(genConfig) \in PathSet(genFiles)

\* C21 amended: the generated file set contains the dashboard template page
\* at the base path exactly when the project structure is not
\* express-api-only, whatever the auth selection.
C21_DashboardUnlessApiOnly ==
    genPc = "done" =>
        (DashboardPath(genConfig) \in PathSet(genFiles)
            <=> genConfig.projectStructure # "express-api-only")

\* a monorepo without auth has its dashboard under apps/web/src
C21_Witness ==
    /\ genPc = "done"
    /\ genConfig.projectStructure = "fullstack-monorepo"
    /\ genConfig.auth = "none"
    /\ "apps/web/src/app/dashboard/page.tsx" \in PathSet(genFiles)

\* the value of a key, arrays by their items
ValueOf(key, v) == IF key = "deployment" THEN <<deploymentItems(v)>> ELSE <<v>>

\* every key present in updates already holds the given value in cfg
AlreadyHolds(cfg, updates) ==
    \A key \in ConfigKeys :
        updates[key] = Undefined \/ ValueOf(key, updates[key]) = ValueOf(key, cfg[key])

\* every key present in updates is strictly identical (===) to the stored one
AlreadyIdentical(cfg, updates) ==
    \A key \in ConfigKeys : updates[key] = Undefined \/ updates[key] = cfg[key]

\* a configuration by value: arrays by their items
ConfigValue(cfg) == [key \in ConfigKeys |-> ValueOf(key, cfg[key])]

\* the updates objects that repeat values of cfg: any non-empty set of keys,
\* the array either the stored object or another one with the same items
\* (the form data handed to onSubmit is such a copy of the whole configuration)
RepeatedInputs(cfg) ==
    {[key \in ConfigKeys |->
         IF key \notin keys THEN Undefined
         ELSE IF key = "deployment" THEN array ELSE cfg[key]] :
       keys \in SUBSET ConfigKeys \ {{}}, array \in DeploymentArrays}

C30_NextApiNeedsNextFrontend ==
    config.backendFramework = "nextjs-api" => config.frontendFramework = "nextjs"

\* the tracker is live before and after the step and the step is one of the
\* three operations on a tracker
TrackerOp == tracker # <<>> /\ tracker' # <<>> /\ psOp' \in {"update", "setError", "setDownloadId"}

\* C24: the event list of a live tracker is append-only: each update appends
\* exactly one event at the end, and update, setError and setDownloadId
\* never remove, reorder or alter an event recorded earlier.
C24_EventsAppendOnly ==
    [][TrackerOp =>
         LET before == tracker[1].events
             after == tracker'[1].events
         IN /\ Len(after) = Len(before) + (IF psOp' = "update" THEN 1 ELSE 0)
            /\ \A i \in 1..Len(before) : after[i] = before[i]]_vars

\* a tracker with two events whose first event is older than an error
C24_Witness ==
    /\ tracker # <<>>
    /\ Len(tracker[1].events) = 2
    /\ tracker[1].events[1].step # tracker[1].events[2].step
    /\ tracker[1].error # "undefined"
    /\ tracker[1].downloadId # NoId

\* C28 as stated: once a tracker's status is 'complete' or 'error', no later
\* update, setError or setDownloadId changes its status or currentStep.
C28_TerminalStatuses ==
    [][(TrackerOp /\ tracker[1].status \in {"complete", "error"}) =>
          /\ tracker'[1].status = tracker[1].status
          /\ tracker'[1].currentStep = tracker[1].currentStep]_vars

\* C28 amended: setDownloadId never changes status or currentStep; update
\* and setError overwrite them whatever the status was: after an update the
\* status is the one of the step of the last event, after setError it is 'error'.
C28_StatusFollowsLastCall ==
    [][TrackerOp =>
          CASE psOp' = "setDownloadId" ->
                  /\ tracker'[1].status = tracker[1].status
                  /\ tracker'[1].currentStep = tracker[1].currentStep
            [] psOp' = "setError" ->
                  tracker'[1].status = "error" /\ tracker'[1].currentStep = "error"
            [] psOp' = "update" ->
                  LET last == tracker'[1].events[Len(tracker'[1].events)] IN
                  /\ tracker'[1].currentStep = last.step
                  /\ tracker'[1].status =
                        (IF last.step \in {"complete", "error"} THEN last.step
                         ELSE "in-progress")]_vars

\* a tracker that was complete and is in progress again
C28_Witness ==
    /\ tracker # <<>>
    /\ Len(tracker[1].events) = 2
    /\ tracker[1].events[1].step = "complete"
    /\ tracker[1].status = "in-progress"

\* C27: after a successful createInitialCommit for a file set of any size
\* n >= 1, the commit at the branch head, whose identifier is returned,
\* carries the caller's commitMessage.
C27_HeadCarriesCommitMessage ==
    (pc = "done" /\ ~ret.threw /\ Len(files) >= 1) =>
        /\ ret.sha = ref
        /\ ret.sha # NoSha
        /\ commits[ret.sha].message = commitMessage

\* the paths of the files handed to the operation
PushedPaths == {files[i].path : i \in 1..Len(files)}

\* C26: after a successful pushToExistingBranch the tree of the branch head
\* still contains every file that was on the branch before the push and is
\* not among the pushed paths, in addition to the pushed files.
C26_PushKeepsOtherFiles ==
    pc = "pushed" =>
        /\ \A path \in DOMAIN TreeOf(mainRef) \ PushedPaths :
              /\ path \in DOMAIN TreeOf(ref)
              /\ TreeOf(ref)[path] = TreeOf(mainRef)[path]
        /\ PushedPaths \subseteq DOMAIN TreeOf(ref)

\* the sections of a built document appear in non-decreasing declared order
InOrder(document) ==
    \A i, j \in 1..Len(document) : i < j => document[i].order <= document[j].order

\* C22: in each document built by the DocumentationGenerator (README, SETUP,
\* DEPLOYMENT) the included sections appear in non-decreasing order of their
\* declared order field, for every configuration.
C22_SectionsInOrder ==
    genPc = "done" =>
        /\ InOrder(buildDocument(readmeSections(genConfig)))
        /\ InOrder(buildDocument(setupSections(genConfig)))
        /\ InOrder(buildDocument(deploymentSections(genConfig)))

\* C23: once the debounce has settled, the validation result exposed by
\* useValidation equals the result of validating the current configuration.
C23_SettledResultIsCurrent ==
    (~timerPending /\ idleQueue = <<>>) => validationResult = validateConfig(hookConfig)

\* C29: in CreateRepoModal, whenever an availability result is held and the
\* submit button is enabled, the result was computed for the name now in
\* the input
C29_ResultIsForCurrentName ==
    (isOpen /\ availabilityResult # ModalNull /\ ~submitDisabled)
        => resultFor = nameInput

====
